---- MODULE Spec2Model ----
(***************************************************************************)
(* Netcapture-Pro: the packet classifier (engine.py) and the protocol      *)
(* decoders of the message reconstruction engine (reconstructor.py).       *)
(*                                                                         *)
(* Bytes are naturals 0..255, a byte buffer is a sequence of bytes, and a  *)
(* Python str is a sequence of Unicode code points.  T("...") writes a     *)
(* str literal; bytes.decode is Utf8Decode, str.encode of ASCII text is    *)
(* the same sequence of numbers.                                           *)
(***************************************************************************)
EXTENDS Integers, Sequences, FiniteSets, TLC

VARIABLES
    pkt,        \* the packet handed to classify_packet / parse_dns
    pkt2,       \* a second packet, classified beside pkt
    cls,        \* <<>> or <<[cat, domains]>>: what classify_packet(pkt) returned
    cls2,       \* <<>> or <<[cat, domains]>>: what classify_packet(pkt2) returned
    dnsMsgs,    \* <<>> or <<msgs>>: what parse_dns(pkt, ts) returned
    payload,    \* the buffer handed to _extract_ws_frames
    wi,         \* _extract_ws_frames: the scan index i
    frames,     \* _extract_ws_frames: the list frames
    wpc,        \* _extract_ws_frames: "idle", "loop", "done"
    wrun,       \* how many calls of _extract_ws_frames have started
    wprev,      \* the list the previous call returned
    wparts,     \* the frames payload was assembled from, and how many bytes were cut
    raw,        \* the buffer handed to _parse_http
    rawParts,   \* <<>> or <<m>>: the message raw was serialised from
    http,       \* <<>> or <<r>>: r is what _parse_http(raw) returned
    tz,         \* the host's local offset from UTC in seconds (read by _ts)
    packets,    \* reconstruct: the packet sequence rdpcap returned
    loadErr,    \* reconstruct: <<>> or <<e>>, the text of the exception rdpcap raised
    rpos,       \* reconstruct: how many packets the for loop has handled
    results,    \* reconstruct: the dict results (at "returned": the value returned)
    SCAPY,      \* reconstructor.SCAPY: the scapy import succeeded
    pcap,       \* the capture file: <<>>, [ok |-> TRUE, pkts] or [ok |-> FALSE, cause]
    rpc,        \* reconstruct: "off", "idle", "scan", "returned"
    rrun,       \* how many calls of reconstruct have started
    rprev,      \* the value the previous call of reconstruct returned
    duration,   \* CaptureEngine.sniff: the parameter duration
    capStats,   \* CaptureFlow.run: cap_stats, which the progress callback updates
    stopEv,     \* CaptureEngine._stop is set
    capT,       \* the capture thread: "none", "sniffing", "exited"
    sniffPc,    \* CaptureEngine.sniff: "off", "idle", "loop", "progress", "raised",
                \* "join", "returned"
    progress,   \* CaptureEngine.sniff: the iteration over traffic.values() under way
    elapsed,    \* CaptureEngine.sniff: how many passes of the progress loop are done
    all_packets, \* CaptureEngine.all_packets
    traffic,    \* CaptureEngine.traffic
    devices,    \* CaptureEngine.devices
    savePc,     \* save_pcap: "idle", "saving", "saved"
    saved       \* save_pcap: the packets it has read so far

vars == <<pkt, pkt2, cls, cls2, dnsMsgs, payload, wi, frames, wpc, wrun, wprev,
          wparts, raw, rawParts, http, tz, packets, loadErr, rpos, results, SCAPY,
          pcap, rpc, rrun, rprev, duration, capStats, stopEv, capT, sniffPc, progress,
          elapsed, all_packets, traffic, devices, savePc, saved>>

pktVars == <<pkt, pkt2, cls, cls2, dnsMsgs>>
wsVars == <<payload, wi, frames, wpc, wrun, wprev, wparts>>
httpVars == <<raw, rawParts, http>>
recVars == <<tz, packets, loadErr, rpos, results, SCAPY, pcap, rpc, rrun, rprev>>
capVars == <<duration, capStats, stopEv, capT, sniffPc, progress, elapsed, all_packets,
            traffic, devices, savePc, saved>>

----------------------------------------------------------------------------
(* Text and bytes *)

AsciiLo == " !"
AsciiMid == "#$%&'()*+,-./0123456789:;<=>?@ABCDEFGHIJKLMNOPQRSTUVWXYZ["
AsciiHi == "]^_"
AsciiLower == "abcdefghijklmnopqrstuvwxyz{|}~"

\* The code point of a one-character literal (ASCII).
Ord(c) ==
    IF c = "\r" THEN 13
    ELSE IF c = "\n" THEN 10
    ELSE IF \E i \in 1..Len(AsciiLo) : SubSeq(AsciiLo, i, i) = c
         THEN 31 + (CHOOSE i \in 1..Len(AsciiLo) : SubSeq(AsciiLo, i, i) = c)
    ELSE IF \E i \in 1..Len(AsciiMid) : SubSeq(AsciiMid, i, i) = c
         THEN 34 + (CHOOSE i \in 1..Len(AsciiMid) : SubSeq(AsciiMid, i, i) = c)
    ELSE IF \E i \in 1..Len(AsciiHi) : SubSeq(AsciiHi, i, i) = c
         THEN 92 + (CHOOSE i \in 1..Len(AsciiHi) : SubSeq(AsciiHi, i, i) = c)
    ELSE 96 + (CHOOSE i \in 1..Len(AsciiLower) : SubSeq(AsciiLower, i, i) = c)

\* The function f on 1..n as a sequence.
AsSeq(f, n) == SubSeq(f, 1, n)

\* A str (or ASCII bytes) literal as a sequence of code points.
T(s) == AsSeq([i \in 1..Len(s) |-> Ord(SubSeq(s, i, i))], Len(s))

\* Python slicing s[a:b] with 0 <= a: never raises, clips to the buffer.
Slice(s, a, b) ==
    LET hi == IF b > Len(s) THEN Len(s) ELSE b
    IN  IF a >= hi THEN <<>> ELSE SubSeq(s, a + 1, hi)

\* s[a:]
SliceFrom(s, a) == Slice(s, a, Len(s))

\* str.startswith(prefix)
StartsWith(s, prefix) ==
    Len(prefix) <= Len(s) /\ SubSeq(s, 1, Len(prefix)) = prefix

\* `sub in s` for str
Contains(s, sub) ==
    \E k \in 0..(Len(s) - Len(sub)) : SubSeq(s, k + 1, k + Len(sub)) = sub

\* The least 0-based index at which sub occurs in s, or -1 (str.find).
Find(s, sub) ==
    IF Contains(s, sub)
    THEN CHOOSE k \in 0..(Len(s) - Len(sub)) :
            /\ SubSeq(s, k + 1, k + Len(sub)) = sub
            /\ \A j \in 0..(k - 1) : SubSeq(s, j + 1, j + Len(sub)) # sub
    ELSE -1

ReplacementChar == 65533

IsCont(b) == 128 <= b /\ b <= 191

\* One step of the UTF-8 decoder at 0-based offset k of s: the code point, how
\* many bytes it used, and whether the bytes were well-formed.  An ill-formed
\* sequence yields U+FFFD for its maximal valid prefix (errors="replace").
Utf8HeadAt(s, k) ==
    LET b  == s[k + 1]
        n  == Len(s) - k
        lo2 == IF b = 224 THEN 160 ELSE IF b = 240 THEN 144 ELSE 128
        hi2 == IF b = 237 THEN 159 ELSE IF b = 244 THEN 143 ELSE 191
        ok2 == n >= 2 /\ lo2 <= s[k + 2] /\ s[k + 2] <= hi2
        ok3 == n >= 3 /\ IsCont(s[k + 3])
        ok4 == n >= 4 /\ IsCont(s[k + 4])
        bad(u) == [cp |-> ReplacementChar, used |-> u, ok |-> FALSE]
    IN  IF b < 128 THEN [cp |-> b, used |-> 1, ok |-> TRUE]
        ELSE IF 194 <= b /\ b <= 223 THEN
            IF ok2 THEN [cp |-> (b - 192) * 64 + (s[k + 2] - 128), used |-> 2, ok |-> TRUE]
            ELSE bad(1)
        ELSE IF 224 <= b /\ b <= 239 THEN
            IF ~ok2 THEN bad(1)
            ELSE IF ~ok3 THEN bad(2)
            ELSE [cp |-> (b - 224) * 4096 + (s[k + 2] - 128) * 64 + (s[k + 3] - 128),
                  used |-> 3, ok |-> TRUE]
        ELSE IF 240 <= b /\ b <= 244 THEN
            IF ~ok2 THEN bad(1)
            ELSE IF ~ok3 THEN bad(2)
            ELSE IF ~ok4 THEN bad(3)
            ELSE [cp |-> (b - 240) * 262144 + (s[k + 2] - 128) * 4096
                          + (s[k + 3] - 128) * 64 + (s[k + 4] - 128),
                  used |-> 4, ok |-> TRUE]
        ELSE bad(1)

\* A decoder step starts at 0-based offset k of s: a step takes its first byte
\* and continuation bytes only, so every other byte starts a step, and a
\* continuation byte starts one unless a step begun up to three bytes before
\* took it.
Utf8StartsAt(s, k) ==
    \/ ~IsCont(s[k + 1])
    \/ \A j \in (IF k > 3 THEN k - 3 ELSE 0)..(k - 1) :
          IsCont(s[j + 1]) \/ j + Utf8HeadAt(s, j).used <= k

\* The offsets at which the decoder steps start, in order.
Utf8Starts(s) == SelectSeq([k \in 1..Len(s) |-> k - 1], LAMBDA k : Utf8StartsAt(s, k))

\* bytes.decode("utf-8", errors="replace"): one code point per decoder step.
Utf8Decode(s) ==
    LET at == Utf8Starts(s)
    IN  AsSeq([u \in 1..Len(at) |-> Utf8HeadAt(s, at[u]).cp], Len(at))

\* bytes.decode() raises UnicodeDecodeError: some step of the decoder meets
\* bytes that are not well-formed UTF-8.
DecodeRaises(s) ==
    \E k \in 0..(Len(s) - 1) : Utf8StartsAt(s, k) /\ ~Utf8HeadAt(s, k).ok

\* bytes.decode("latin-1"): byte n is code point n.
Latin1Decode(s) == s

RECURSIVE RStrip(_, _)
\* str.rstrip(c): every trailing c is removed.
RStrip(s, c) ==
    IF s # <<>> /\ s[Len(s)] = c THEN RStrip(SubSeq(s, 1, Len(s) - 1), c) ELSE s

----------------------------------------------------------------------------
(* engine.py: the signature table and classify_packet *)

\* SIGNATURES, in declaration order (dict iteration order).
SIGNATURES == <<
    [cat |-> "Social Media",
     domains |-> <<T("facebook.com"), T("instagram.com"), T("twitter.com"), T("x.com"),
                   T("tiktok.com"), T("snapchat.com"), T("reddit.com"), T("linkedin.com"),
                   T("pinterest.com")>>,
     ports |-> <<>>],
    [cat |-> "Messaging",
     domains |-> <<T("whatsapp.com"), T("telegram.org"), T("signal.org"), T("discord.com"),
                   T("messenger.com"), T("textplus.com"), T("viber.com"), T("line.me")>>,
     ports |-> <<5222, 5223, 4244>>],
    [cat |-> "VoIP",
     domains |-> <<T("zoom.us"), T("teams.microsoft.com"), T("meet.google.com"),
                   T("skype.com"), T("webex.com"), T("vonage.com")>>,
     ports |-> <<5060, 5061, 16384, 16482>>],
    [cat |-> "Video Streaming",
     domains |-> <<T("netflix.com"), T("youtube.com"), T("hulu.com"), T("disneyplus.com"),
                   T("hbomax.com"), T("twitch.tv"), T("primevideo.com"), T("peacocktv.com")>>,
     ports |-> <<1935, 554>>],
    [cat |-> "Music Streaming",
     domains |-> <<T("spotify.com"), T("music.apple.com"), T("soundcloud.com"),
                   T("pandora.com"), T("tidal.com"), T("deezer.com")>>,
     ports |-> <<>>],
    [cat |-> "Gaming",
     domains |-> <<T("steam.valve.com"), T("epicgames.com"), T("battle.net"), T("ea.com"),
                   T("roblox.com")>>,
     ports |-> <<27015, 3074, 9308>>],
    [cat |-> "Email",
     domains |-> <<T("gmail.com"), T("outlook.com"), T("yahoo.com"), T("protonmail.com")>>,
     ports |-> <<25, 110, 143, 465, 587, 993, 995>>],
    [cat |-> "Web (HTTP)",  domains |-> <<>>, ports |-> <<80>>],
    [cat |-> "Web (HTTPS)", domains |-> <<>>, ports |-> <<443>>],
    [cat |-> "DNS",  domains |-> <<>>, ports |-> <<53>>],
    [cat |-> "SSH",  domains |-> <<>>, ports |-> <<22>>],
    [cat |-> "FTP",  domains |-> <<>>, ports |-> <<20, 21>>],
    [cat |-> "VPN",  domains |-> <<>>, ports |-> <<1194, 1723, 500, 4500>>],
    [cat |-> "Other", domains |-> <<>>, ports |-> <<>>] >>

\* The keys of SIGNATURES.
Categories == {SIGNATURES[k].cat : k \in 1..Len(SIGNATURES)}

\* A packet is a record of its layers, each <<>> (absent) or a one-element
\* sequence: `IP in pkt` is pkt.ip # <<>>, pkt[IP] is pkt.ip[1].  The DNS layer
\* carries qr and its question section qd, <<>> or <<qname bytes>>.
HasLayer(layer) == layer # <<>>

\* PacketPorts with the source ports forgotten.
PacketPorts_DportOnly(p) ==
    (IF HasLayer(p.tcp) THEN {p.tcp[1].dport} ELSE {})
    \cup (IF HasLayer(p.udp) THEN {p.udp[1].dport} ELSE {})

\* Lines 89-92: the ports of the TCP and UDP layers, both directions.
PacketPorts(p) ==
    (IF HasLayer(p.tcp) THEN {p.tcp[1].dport, p.tcp[1].sport} ELSE {})
    \cup (IF HasLayer(p.udp) THEN {p.udp[1].dport, p.udp[1].sport} ELSE {})

\* pkt[DNSQR].qname.decode().rstrip(".") raises: no question section, or a
\* name that is not UTF-8.
QnameRaises(p) == ~HasLayer(p.dns[1].qd) \/ DecodeRaises(p.dns[1].qd[1])

\* pkt[DNSQR].qname.decode().rstrip(".")
QnameText(p) == RStrip(Utf8Decode(p.dns[1].qd[1]), Ord("."))

\* Lines 93-97: the domain set of a DNS query; the except clause leaves it empty.
PacketDomains(p) ==
    IF HasLayer(p.dns) /\ p.dns[1].qr = 0 /\ ~QnameRaises(p) THEN {QnameText(p)} ELSE {}

\* Lines 101-104: some domain substring of the category is in an observed domain.
DomainHit(sig, domains) ==
    \E k \in 1..Len(sig.domains) : \E qd \in domains : Contains(qd, sig.domains[k])

\* Lines 105-107: some port of the category is among the packet's ports.
PortHit(sig, ports) ==
    \E k \in 1..Len(sig.ports) : sig.ports[k] \in ports

\* One iteration of the loop of lines 98-107 decides for its category.
CategoryHit(sig, ports, domains) ==
    sig.cat # "Other" /\ (DomainHit(sig, domains) \/ PortHit(sig, ports))

RECURSIVE ScanSignatures(_, _, _)
\* Lines 98-108: the loop over SIGNATURES.items() from entry k on.
ScanSignatures(k, ports, domains) ==
    IF k > Len(SIGNATURES) THEN "Other"
    ELSE IF CategoryHit(SIGNATURES[k], ports, domains) THEN SIGNATURES[k].cat
    ELSE ScanSignatures(k + 1, ports, domains)

\* classify_packet returning a fresh empty set with "Other".
classify_packet_OtherDropsDomains(p) ==
    LET cat == IF HasLayer(p.ip)
               THEN ScanSignatures(1, PacketPorts(p), PacketDomains(p)) ELSE "Other"
    IN  [cat |-> cat,
         domains |-> IF cat = "Other" \/ ~HasLayer(p.ip) THEN {} ELSE PacketDomains(p)]

\* classify_packet collecting the destination ports only.
classify_packet_DportOnly(p) ==
    IF ~HasLayer(p.ip) THEN [cat |-> "Other", domains |-> {}]
    ELSE [cat |-> ScanSignatures(1, PacketPorts_DportOnly(p), PacketDomains(p)),
          domains |-> PacketDomains(p)]

\* classify_packet(pkt): the (category, domains) pair it returns.
classify_packet(p) ==
    IF ~HasLayer(p.ip) THEN [cat |-> "Other", domains |-> {}]
    ELSE [cat |-> ScanSignatures(1, PacketPorts(p), PacketDomains(p)),
          domains |-> PacketDomains(p)]

----------------------------------------------------------------------------
(* reconstructor.py: parse_dns *)

\* parse_dns without the qr test.
parse_dns_AnyQr(p, ts) ==
    IF HasLayer(p.dns) /\ ~QnameRaises(p)
    THEN << [platform |-> "DNS Query",
             timestamp |-> ts,
             query |-> QnameText(p),
             src |-> IF HasLayer(p.ip) THEN p.ip[1].src ELSE ""] >>
    ELSE <<>>

\* parse_dns(pkt, ts): the list of records it returns.
parse_dns(p, ts) ==
    IF HasLayer(p.dns) /\ p.dns[1].qr = 0 /\ ~QnameRaises(p)
    THEN << [platform |-> "DNS Query",
             timestamp |-> ts,
             query |-> QnameText(p),
             src |-> IF HasLayer(p.ip) THEN p.ip[1].src ELSE ""] >>
    ELSE <<>>

----------------------------------------------------------------------------
(* reconstructor.py: _extract_ws_frames *)

\* Bit k of n.
Bit(n, k) == (n \div (2 ^ k)) % 2

\* a ^ b for two bytes.
Xor(a, b) ==
    LET x(k) == ((Bit(a, k) + Bit(b, k)) % 2) * (2 ^ k)
    IN  x(0) + x(1) + x(2) + x(3) + x(4) + x(5) + x(6) + x(7)

\* Python integers are unbounded; a length from LenCap on is kept only as
\* "at least LenCap", which is beyond the end of every buffer.
LenCap == 1048576

\* int.from_bytes(s, "big"), 0 for the empty slice: val[k] is the value of the
\* first k bytes.
FromBytesBig(s) ==
    LET val[k \in 0..Len(s)] ==
            IF k = 0 THEN 0
            ELSE IF val[k - 1] >= LenCap THEN val[k - 1] ELSE val[k - 1] * 256 + s[k]
    IN  val[Len(s)]

\* bytes(b ^ mask[j % 4] for j, b in enumerate(data))
Unmask(data, mask) == [j \in 1..Len(data) |-> Xor(data[j], mask[((j - 1) % 4) + 1])]

\* Unmask with the wrong modulus.
WsFrameAt_Mod3(buf, i) ==
    LET b1     == buf[i + 2]
        masked == b1 >= 128
        base   == b1 % 128
        i1     == i + 2
        length == IF base = 126 THEN FromBytesBig(Slice(buf, i1, i1 + 2))
                  ELSE IF base = 127 THEN FromBytesBig(Slice(buf, i1, i1 + 8))
                  ELSE base
        i2     == IF base = 126 THEN i1 + 2 ELSE IF base = 127 THEN i1 + 8 ELSE i1
        mask   == IF masked THEN Slice(buf, i2, i2 + 4) ELSE <<0, 0, 0, 0>>
        i3     == IF masked THEN i2 + 4 ELSE i2
        wire   == Slice(buf, i3, i3 + length)
    IN  [opcode |-> buf[i + 1] % 16,
         raises |-> FALSE,
         data   |-> IF masked /\ Len(mask) = 4
                    THEN [j \in 1..Len(wire) |-> Xor(wire[j], mask[((j - 1) % 3) + 1])]
                    ELSE wire,
         next   |-> i3 + length]

\* The index moved by the payload length alone, the two header bytes forgotten.
WsFrameAt_NoHeaderAdvance(buf, i) ==
    LET b1     == buf[i + 2]
        length == b1 % 128
        wire   == Slice(buf, i, i + length)
    IN  [opcode |-> buf[i + 1] % 16, raises |-> FALSE, data |-> wire, next |-> i + length]

\* Lines 86-100, one pass of the loop body at index i (i + 2 <= len(payload)):
\* the opcode, the unmasked data, the index after the frame, and whether
\* mask[j % 4] raises IndexError (the mask slice is short and there is data).
WsFrameAt(buf, i) ==
    LET b0     == buf[i + 1]
        b1     == buf[i + 2]
        masked == b1 >= 128
        base   == b1 % 128
        i1     == i + 2
        length == IF base = 126 THEN FromBytesBig(Slice(buf, i1, i1 + 2))
                  ELSE IF base = 127 THEN FromBytesBig(Slice(buf, i1, i1 + 8))
                  ELSE base
        i2     == IF base = 126 THEN i1 + 2 ELSE IF base = 127 THEN i1 + 8 ELSE i1
        mask   == IF masked THEN Slice(buf, i2, i2 + 4) ELSE <<0, 0, 0, 0>>
        i3     == IF masked THEN i2 + 4 ELSE i2
        wire   == Slice(buf, i3, i3 + length)
        raises == masked /\ \E j \in 1..Len(wire) : ((j - 1) % 4) + 1 > Len(mask)
    IN  [opcode |-> b0 % 16,
         raises |-> raises,
         data   |-> IF raises THEN <<>> ELSE IF masked THEN Unmask(wire, mask) ELSE wire,
         next   |-> i3 + length]

\* The pass keeping text frames only.
WsEmit_TextOnly(f) ==
    IF f.opcode = 1 THEN <<Utf8Decode(f.data)>> ELSE <<>>

\* Lines 101-102: what the pass appends to frames.
WsEmit(f) ==
    IF f.opcode \in {1, 2} THEN <<Utf8Decode(f.data)>> ELSE <<>>

RECURSIVE WsScan(_, _, _)
\* The while loop of lines 84-104 from index i with the frames found so far.
WsScan(buf, i, found) ==
    IF i + 2 > Len(buf) THEN found
    ELSE LET f == WsFrameAt(buf, i)
         IN  IF f.raises THEN found
             ELSE WsScan(buf, f.next, found \o WsEmit(f))

\* _extract_ws_frames(payload)
_extract_ws_frames(buf) == WsScan(buf, 0, <<>>)

----------------------------------------------------------------------------
(* reconstructor.py: _decode_body and _parse_http *)

CRLF == <<13, 10>>

\* The code points below 256 that str.strip() removes (str.isspace).
Whitespace == {9, 10, 11, 12, 13, 28, 29, 30, 31, 32, 133, 160}

\* str.strip()
Strip(s) ==
    LET kept == {k \in 1..Len(s) : s[k] \notin Whitespace}
        lo   == CHOOSE k \in kept : \A j \in kept : k <= j
        hi   == CHOOSE k \in kept : \A j \in kept : j <= k
    IN  IF kept = {} THEN <<>> ELSE SubSeq(s, lo, hi)

\* str.lower() on the code points below 256 (A-Z and the Latin-1 capitals);
\* U+FFFD has no lower case.
Lower(s) ==
    AsSeq([k \in 1..Len(s) |->
            IF (65 <= s[k] /\ s[k] <= 90) \/ (192 <= s[k] /\ s[k] <= 222 /\ s[k] # 215)
            THEN s[k] + 32 ELSE s[k]], Len(s))

\* s.split(sep, maxsplit) for a non-empty sep: piece[k, c] is s[k:] split with
\* c splits left.
SplitMax(s, sep, maxsplit) ==
    LET n == Len(s)
        m == Len(sep)
        At(j) == j + m <= n /\ SubSeq(s, j + 1, j + m) = sep
        piece[k \in 0..n, c \in 0..maxsplit] ==
            IF c > 0 /\ \E j \in k..(n - m) : At(j)
            THEN LET j == CHOOSE j \in k..(n - m) : At(j) /\ \A h \in k..(j - 1) : ~At(h)
                 IN  <<Slice(s, k, j)>> \o piece[j + m, c - 1]
            ELSE <<SliceFrom(s, k)>>
    IN  piece[0, maxsplit]

\* s.split(sep): no limit on the splits.
Split(s, sep) == SplitMax(s, sep, Len(s))

\* s.partition(sep): the text before and after the first sep.
Partition(s, sep) ==
    IF Find(s, sep) < 0 THEN [before |-> s, after |-> <<>>]
    ELSE [before |-> Slice(s, 0, Find(s, sep)),
          after  |-> SliceFrom(s, Find(s, sep) + Len(sep))]

\* sep.join(list)
Join(sep, list) ==
    LET joined[k \in 0..Len(list)] ==
            IF k = 0 THEN <<>>
            ELSE IF k = 1 THEN list[1]
            ELSE joined[k - 1] \o sep \o list[k]
    IN  joined[Len(list)]

\* A dict is a function on its keys; {} is the function on no key.
EmptyDict == <<>>

\* d[k] = v
SetItem(d, k, v) == [x \in (DOMAIN d) \cup {k} |-> IF x = k THEN v ELSE d[x]]

\* d.get(k, default)
DictGet(d, k, default) == IF k \in DOMAIN d THEN d[k] ELSE default

\* Compressed streams the decompressors know: gzip.compress(b"hi"),
\* zlib.compress(b"hi"), and the empty buffer, which gzip.decompress accepts.
GzipStreams ==
    { [packed |-> <<31, 139, 8, 0, 0, 0, 0, 0, 2, 3, 203, 200, 4, 0, 172, 42, 147, 216,
                    2, 0, 0, 0>>, plain |-> T("hi")],
      [packed |-> <<>>, plain |-> <<>>] }

ZlibStreams ==
    { [packed |-> <<120, 156, 203, 200, 4, 0, 1, 59, 0, 210>>, plain |-> T("hi")] }

\* gzip.decompress / zlib.decompress over the known streams; any other buffer
\* is not a stream and raises.
Decompress(streams, data) ==
    IF \E e \in streams : e.packed = data
    THEN [ok |-> TRUE, out |-> (CHOOSE e \in streams : e.packed = data).plain]
    ELSE [ok |-> FALSE, out |-> data]

\* _decode_body(data, encoding)
_decode_body(data, encoding) ==
    LET unpacked == IF Contains(encoding, T("gzip")) THEN Decompress(GzipStreams, data)
                    ELSE IF Contains(encoding, T("deflate")) THEN Decompress(ZlibStreams, data)
                    ELSE [ok |-> TRUE, out |-> data]
    IN  IF unpacked.ok THEN Utf8Decode(unpacked.out) ELSE Latin1Decode(data)

\* Line 56: the prefixes that make a first line a request line.
Verbs == {T("GET"), T("POST"), T("PUT"), T("DELETE"), T("PATCH"), T("HEAD"), T("OPTIONS")}

\* The 1-based position in lines of the line that ends the header loop (the
\* first empty line after lines[0]), 0 when the loop runs to the end.
BlankAt(lines) ==
    IF \E j \in 2..Len(lines) : lines[j] = <<>>
    THEN CHOOSE j \in 2..Len(lines) : lines[j] = <<>> /\ \A h \in 2..(j - 1) : lines[h] # <<>>
    ELSE 0

\* Line 53 without the lower-casing of the key.
HeaderKey_NoLower(k) == Strip(k)

\* Line 53: the key a header line is stored under.
HeaderKey(k) == Lower(Strip(k))

\* Lines 45-53: the headers dict after the loop over lines[1:].
ParseHeaders(lines) ==
    LET last == IF BlankAt(lines) = 0 THEN Len(lines) ELSE BlankAt(lines) - 1
        hd[k \in 1..Len(lines)] ==
            IF k = 1 THEN EmptyDict
            ELSE IF Contains(lines[k], T(":"))
            THEN SetItem(hd[k - 1], HeaderKey(Partition(lines[k], T(":")).before),
                         Strip(Partition(lines[k], T(":")).after))
            ELSE hd[k - 1]
    IN  hd[last]

\* Line 54: the body.
ParseBody(lines) ==
    IF BlankAt(lines) = 0 THEN <<>>
    ELSE Join(CRLF, SubSeq(lines, BlankAt(lines) + 1, Len(lines)))

\* _parse_http returns None.
None == [type |-> "None"]

\* _parse_http that pads a first line of one token with an empty second token.
_parse_http_LenientUnpack(buf) ==
    LET lines == Split(Utf8Decode(buf), CRLF)
        first == lines[1]
        tok   == SplitMax(first, T(" "), 2) \o <<<<>>>>
    IN  IF \E v \in Verbs : StartsWith(first, v)
        THEN [type |-> "request", method |-> tok[1], path |-> tok[2],
              headers |-> ParseHeaders(lines), body |-> ParseBody(lines)]
        ELSE IF StartsWith(first, T("HTTP"))
        THEN [type |-> "response", status |-> tok[2], reason |-> <<>>,
              headers |-> ParseHeaders(lines), body |-> ParseBody(lines),
              encoding |-> DictGet(ParseHeaders(lines), T("content-encoding"), <<>>)]
        ELSE None

\* _parse_http(raw): lines 39-77.  Unpacking a first line without a space
\* raises ValueError, which line 75 absorbs.
_parse_http(buf) ==
    LET lines == Split(Utf8Decode(buf), CRLF)
        first == lines[1]
        tok   == SplitMax(first, T(" "), 2)
    IN  IF \E v \in Verbs : StartsWith(first, v)
        THEN IF Len(tok) < 2 THEN None
             ELSE [type |-> "request", method |-> tok[1], path |-> tok[2],
                   headers |-> ParseHeaders(lines), body |-> ParseBody(lines)]
        ELSE IF StartsWith(first, T("HTTP"))
        THEN IF Len(tok) < 2 THEN None
             ELSE [type |-> "response", status |-> tok[2],
                   reason |-> Join(T(" "), SubSeq(tok, 3, Len(tok))),
                   headers |-> ParseHeaders(lines), body |-> ParseBody(lines),
                   encoding |-> DictGet(ParseHeaders(lines), T("content-encoding"), <<>>)]
        ELSE None

----------------------------------------------------------------------------
(* reconstructor.py: _ts, _sip_parse and parse_sip_voip *)

\* n as two and as four decimal digits (strftime %m, %d, %H, %M, %S and %Y).
Digits2(n) == <<48 + (n \div 10), 48 + (n % 10)>>

Digits4(n) == Digits2(n \div 100) \o Digits2(n % 100)

\* The proleptic Gregorian date of day z, z counted from 1970-01-01.
CivilFromDays(z) ==
    LET zz  == z + 719468
        era == zz \div 146097
        doe == zz - era * 146097
        yoe == (doe - (doe \div 1460) + (doe \div 36524) - (doe \div 146096)) \div 365
        doy == doe - (365 * yoe + (yoe \div 4) - (yoe \div 100))
        mp  == (5 * doy + 2) \div 153
        m   == IF mp < 10 THEN mp + 3 ELSE mp - 9
    IN  [y |-> yoe + era * 400 + (IF m <= 2 THEN 1 ELSE 0),
         m |-> m,
         d |-> doy - ((153 * mp + 2) \div 5) + 1]

\* _ts(pkt) on a host `offset` seconds east of UTC: the local time of pkt.time as
\* "%Y-%m-%d %H:%M:%S".  pkt.time is kept as whole days since the epoch and
\* seconds of the day; fromtimestamp raises for a year outside 1..9999 and the
\* except clause returns "Unknown".
_ts(p, offset) ==
    LET c    == CivilFromDays(p.time.day + ((p.time.sec + offset) \div 86400))
        secs == (p.time.sec + offset) % 86400
    IN  IF c.y < 1 \/ c.y > 9999 THEN T("Unknown")
        ELSE Digits4(c.y) \o T("-") \o Digits2(c.m) \o T("-") \o Digits2(c.d) \o T(" ")
             \o Digits2(secs \div 3600) \o T(":") \o Digits2((secs % 3600) \div 60)
             \o T(":") \o Digits2(secs % 60)

\* Line 113: the prefixes that make a first line a SIP message.
SipStarts ==
    {T("SIP/"), T("INVITE"), T("ACK"), T("BYE"), T("REGISTER"), T("OPTIONS"), T("NOTIFY")}

\* The headers dict with the keys stripped but kept in their case.
SipHeaders_KeepCase(lines) ==
    LET hd[k \in 1..Len(lines)] ==
            IF k = 1 THEN EmptyDict
            ELSE IF Contains(lines[k], T(":"))
            THEN SetItem(hd[k - 1], Strip(Partition(lines[k], T(":")).before),
                         Strip(Partition(lines[k], T(":")).after))
            ELSE hd[k - 1]
    IN  hd[Len(lines)]

\* Lines 115-119: the headers dict after the loop over every line of lines[1:].
SipHeaders(lines) ==
    LET hd[k \in 1..Len(lines)] ==
            IF k = 1 THEN EmptyDict
            ELSE IF Contains(lines[k], T(":"))
            THEN SetItem(hd[k - 1], HeaderKey(Partition(lines[k], T(":")).before),
                         Strip(Partition(lines[k], T(":")).after))
            ELSE hd[k - 1]
    IN  hd[Len(lines)]

\* _sip_parse(raw)
_sip_parse(buf) ==
    LET lines == Split(Utf8Decode(buf), CRLF)
    IN  IF ~\E v \in SipStarts : StartsWith(lines[1], v) THEN None
        ELSE [type    |-> "sip",
              first   |-> lines[1],
              from    |-> DictGet(SipHeaders(lines), T("from"), <<>>),
              to      |-> DictGet(SipHeaders(lines), T("to"), <<>>),
              call_id |-> DictGet(SipHeaders(lines), T("call-id"), <<>>),
              subject |-> DictGet(SipHeaders(lines), T("subject"), <<>>)]

\* parse_sip_voip(raw_payload, ts)
parse_sip_voip(raw_payload, ts) ==
    LET parsed == _sip_parse(raw_payload)
    IN  IF parsed = None THEN <<>>
        ELSE << [platform  |-> "VoIP/SIP",
                 timestamp |-> ts,
                 event     |-> parsed.first,
                 from      |-> parsed.from,
                 to        |-> parsed.to,
                 call_id   |-> parsed.call_id,
                 subject   |-> parsed.subject] >>

----------------------------------------------------------------------------
(* reconstructor.py: unquote_plus and the regular expressions of the decoders *)

\* The value of a hexadecimal digit, -1 for any other character.
HexValue(c) ==
    IF 48 <= c /\ c <= 57 THEN c - 48
    ELSE IF 65 <= c /\ c <= 70 THEN c - 55
    ELSE IF 97 <= c /\ c <= 102 THEN c - 87
    ELSE -1

\* urllib.parse.unquote_to_bytes on ASCII text: every %XY with two hexadecimal
\* digits becomes the byte, any other % (code 37) stays.
UnquoteToBytes(s) ==
    LET n == Len(s)
        esc(k) == /\ s[k + 1] = 37 /\ k + 3 <= n
                  /\ HexValue(s[k + 2]) >= 0 /\ HexValue(s[k + 3]) >= 0
        out[k \in 0..n] ==
            IF k = n THEN <<>>
            ELSE IF esc(k) THEN <<16 * HexValue(s[k + 2]) + HexValue(s[k + 3])>> \o out[k + 3]
            ELSE <<s[k + 1]>> \o out[k + 1]
    IN  out[0]

\* urllib.parse.unquote(s): each run of ASCII characters is unquoted to bytes and
\* decoded as UTF-8 with errors="replace"; other characters stay.
Unquote(s) ==
    LET n == Len(s)
        runEnd(k) == CHOOSE e \in (k + 1)..n :
                        /\ \A j \in (k + 1)..e : s[j] < 128
                        /\ e = n \/ s[e + 1] >= 128
        out[k \in 0..n] ==
            IF k = n THEN <<>>
            ELSE IF s[k + 1] >= 128 THEN <<s[k + 1]>> \o out[k + 1]
            ELSE Utf8Decode(UnquoteToBytes(Slice(s, k, runEnd(k)))) \o out[runEnd(k)]
    IN  out[0]

\* urllib.parse.unquote_plus(s)
UnquotePlus(s) ==
    Unquote(AsSeq([k \in 1..Len(s) |-> IF s[k] = Ord("+") THEN 32 ELSE s[k]], Len(s)))

\* The least element of a non-empty set of numbers.
Least(S) == CHOOSE x \in S : \A y \in S : x <= y

\* The 0-based index of the first character of s at or after k that is in (or,
\* with neg, not in) chars; Len(s) when there is none.
SkipTo(s, k, chars, neg) ==
    LET hits == {j \in k..(Len(s) - 1) : (s[j + 1] \in chars) # neg}
    IN  IF hits = {} THEN Len(s) ELSE Least(hits)

\* sub occurs in s at 0-based index k.
OccursAt(s, k, sub) ==
    k + Len(sub) <= Len(s) /\ SubSeq(s, k + 1, k + Len(sub)) = sub

\* re.search(r"body=([^&]+)", text): <<>> or <<group 1>>; & is code 38.
ReBodyParam(text) ==
    LET key    == T("body=")
        ok(i)  == OccursAt(text, i, key) /\ i + 5 < Len(text) /\ text[i + 6] # 38
        starts == {i \in 0..Len(text) : ok(i)}
    IN  IF starts = {} THEN <<>>
        ELSE <<Slice(text, Least(starts) + 5,
                     SkipTo(text, Least(starts) + 5, {38}, FALSE))>>

Quote == 34

\* re.search(r'"body"\s*:\s*"([^"]+)"', text): <<>> or <<group 1>>; the colon
\* is code 58.
ReJsonBody(text) ==
    LET key      == <<Quote>> \o T("body") \o <<Quote>>
        colon(i) == SkipTo(text, i + 6, Whitespace, TRUE)
        open(i)  == SkipTo(text, colon(i) + 1, Whitespace, TRUE)
        close(i) == SkipTo(text, open(i) + 1, {Quote}, FALSE)
        ok(i)    == /\ OccursAt(text, i, key)
                    /\ OccursAt(text, colon(i), <<58>>)
                    /\ OccursAt(text, open(i), <<Quote>>)
                    /\ close(i) > open(i) + 1 /\ close(i) < Len(text)
        starts   == {i \in 0..Len(text) : ok(i)}
    IN  IF starts = {} THEN <<>>
        ELSE <<Slice(text, open(Least(starts)) + 1, close(Least(starts)))>>

\* re.findall(r"<body[^>]*>(.*?)</body>", text, re.DOTALL): the groups of the
\* matches from left to right, each search starting where the last match ended;
\* > is code 62.
ReBodies(text) ==
    LET n == Len(text)
        open   == T("<body")
        close  == T("</body>")
        gt(i)  == SkipTo(text, i + 5, {62}, FALSE)
        ends(i) == {j \in (gt(i) + 1)..n : OccursAt(text, j, close)}
        ok(i)  == OccursAt(text, i, open) /\ gt(i) < n /\ ends(i) # {}
        found[k \in 0..n] ==
            IF \E i \in k..n : ok(i)
            THEN LET i == Least({i \in k..n : ok(i)})
                 IN  <<Slice(text, gt(i) + 1, Least(ends(i)))>> \o found[Least(ends(i)) + 7]
            ELSE <<>>
    IN  found[0]

Quotes == {34, 39}

\* The code points below 256 that \w matches in a str pattern (str.isalnum or "_").
WordChars ==
    (48..57) \cup (65..90) \cup (97..122) \cup {95, 170, 178, 179, 181, 185, 186, 188, 189, 190}
    \cup (192..214) \cup (216..246) \cup (248..255)

\* The groups of attr=["']([^"']+)["'] in text from left to right, attr read
\* behind a word boundary when bounded; = is code 61.
ReAttr(text, attr, bounded) ==
    LET n == Len(text)
        m == Len(attr)
        lead == attr \o <<61>>
        close(i) == SkipTo(text, i + m + 2, Quotes, FALSE)
        ok(i) == /\ OccursAt(text, i, lead)
                 /\ i + m + 1 < n /\ text[i + m + 2] \in Quotes
                 /\ close(i) > i + m + 2 /\ close(i) < n
                 /\ bounded => (i = 0 \/ text[i] \notin WordChars)
        found[k \in 0..n] ==
            IF \E i \in k..n : ok(i)
            THEN LET i == Least({i \in k..n : ok(i)})
                 IN  <<Slice(text, i + m + 2, close(i))>> \o found[close(i) + 1]
            ELSE <<>>
    IN  found[0]

\* _xmpp_parse(raw)
_xmpp_parse(buf) ==
    LET text   == Utf8Decode(buf)
        bodies == ReBodies(text)
        froms  == ReAttr(text, T("from"), FALSE)
        tos    == ReAttr(text, T("to"), TRUE)
    IN  IF bodies = <<>> THEN None
        ELSE [type   |-> "xmpp",
              from   |-> IF froms # <<>> THEN froms[1] ELSE <<>>,
              to     |-> IF tos # <<>> THEN tos[1] ELSE <<>>,
              bodies |-> bodies]

----------------------------------------------------------------------------
(* reconstructor.py: json.loads and the platform decoders *)

\* JSON values as json.loads builds them, tagged with their Python type.
JStr(s) == [t |-> "str", v |-> s]
JNum(n) == [t |-> "int", v |-> n]
JList(items) == [t |-> "list", v |-> items]
JDict(pairs) ==
    [t |-> "dict",
     v |-> [k \in {pairs[i][1] : i \in DOMAIN pairs} |->
              pairs[CHOOSE i \in DOMAIN pairs :
                        pairs[i][1] = k /\ \A j \in DOMAIN pairs : pairs[j][1] = k => j <= i][2]]]

\* A JSON text written with ' for the double quote.
J(s) == LET t == T(s) IN AsSeq([k \in 1..Len(t) |-> IF t[k] = 39 THEN Quote ELSE t[k]], Len(t))

\* json.loads is modelled on the documents below: each text with the value the
\* library returns for it.
JsonDocs ==
    << <<J("{'data':[{'message':'hi','from':{'name':'Al'},'created_time':'t1'}]}"),
         JDict(<< <<T("data"), JList(<<JDict(<< <<T("message"), JStr(T("hi"))>>,
                                               <<T("from"), JDict(<< <<T("name"), JStr(T("Al"))>> >>)>>,
                                               <<T("created_time"), JStr(T("t1"))>> >>)>>)>> >>) >>,
       <<J("{'data':[{'message':'a'},{'from':'x','message':'b'},{'message':'c'}]}"),
         JDict(<< <<T("data"), JList(<<JDict(<< <<T("message"), JStr(T("a"))>> >>),
                                       JDict(<< <<T("from"), JStr(T("x"))>>,
                                               <<T("message"), JStr(T("b"))>> >>),
                                       JDict(<< <<T("message"), JStr(T("c"))>> >>)>>)>> >>) >>,
       <<J("{'data':'ab'}"), JDict(<< <<T("data"), JStr(T("ab"))>> >>) >>,
       <<J("{'x':1}"), JDict(<< <<T("x"), JNum(1)>> >>) >>,
       <<J("[1]"), JList(<<JNum(1)>>) >>,
       <<J("['t1',{'body':'hello','key':{'remoteJid':'j1'}}]"),
         JList(<<JStr(T("t1")),
                 JDict(<< <<T("body"), JStr(T("hello"))>>,
                         <<T("key"), JDict(<< <<T("remoteJid"), JStr(T("j1"))>> >>)>> >>)>>) >>,
       <<J("['t2',{'body':'yo'}]"),
         JList(<<JStr(T("t2")), JDict(<< <<T("body"), JStr(T("yo"))>> >>)>>) >>,
       <<J("['t3',{'body':'b','key':'k'}]"),
         JList(<<JStr(T("t3")),
                 JDict(<< <<T("body"), JStr(T("b"))>>, <<T("key"), JStr(T("k"))>> >>)>>) >>,
       <<J("['t4',{'x':1}]"),
         JList(<<JStr(T("t4")), JDict(<< <<T("x"), JNum(1)>> >>)>>) >>,
       <<J("{'body':'solo'}"), JDict(<< <<T("body"), JStr(T("solo"))>> >>) >>,
       <<J("'quoted'"), JStr(T("quoted")) >>,
       <<J("17"), JNum(17) >> >>

\* Texts that begin like JSON and that json.loads rejects.
JsonRejects ==
    {J("{'data':"), J("{oops"), J("['t5',{'body':"), J("[1,]"), T("two"), T("f")}

JsonWhitespace == {9, 10, 13, 32}

\* The characters a JSON text can begin with after its leading whitespace.
JsonStarters == {Ord("{"), Ord("["), Quote, Ord("-"), Ord("t"), Ord("f"), Ord("n"), Ord("N"), Ord("I")}
                \cup (48..57)

\* json.loads(text): [ok |-> TRUE, v |-> value], or [ok |-> FALSE] when it
\* raises.  A text that begins like JSON and is in neither table has no model
\* here.
JsonLoads(text) ==
    LET in(docs, at) ==
          IF \E i \in DOMAIN docs : docs[i][1] = text
          THEN [ok |-> TRUE, v |-> docs[CHOOSE i \in DOMAIN docs : docs[i][1] = text][2]]
          ELSE IF at = Len(text) \/ text[at + 1] \notin JsonStarters \/ text \in JsonRejects
          THEN [ok |-> FALSE, v |-> JNum(0)]
          ELSE CHOOSE r \in {} : TRUE
    IN  in(JsonDocs, SkipTo(text, 0, JsonWhitespace, TRUE))

\* The Python value of a JSON value: a str is the text itself.
PyOf(jv) == IF jv.t = "str" THEN jv.v ELSE jv

\* http_obj.get(field, "")
HttpGet(http_obj, field) ==
    IF field = "path" /\ "path" \in DOMAIN http_obj THEN http_obj.path
    ELSE IF field = "method" /\ "method" \in DOMAIN http_obj THEN http_obj.method
    ELSE IF field = "body" /\ "body" \in DOMAIN http_obj THEN http_obj.body
    ELSE <<>>

\* http_obj.get("headers", {}).get(name, "")
HttpHeader(http_obj, name) ==
    IF "headers" \in DOMAIN http_obj THEN DictGet(http_obj.headers, T(name), <<>>) ELSE <<>>

\* The records parse_facebook appends for the items of a Graph API reply: the
\* loop ends at the first item that raises.
GraphItems(jdata, ts) ==
    LET data  == IF jdata.t = "dict" THEN DictGet(jdata.v, T("data"), JList(<<>>)) ELSE JNum(0)
        items == IF jdata.t = "dict" /\ data.t = "list" THEN data.v ELSE <<>>
        good(item) == item.t = "dict"
                      /\ (T("from") \in DOMAIN item.v => item.v[T("from")].t = "dict")
        n == Least({k \in 0..Len(items) : k = Len(items) \/ ~good(items[k + 1])})
        sender(item) == IF T("from") \in DOMAIN item.v
                        THEN PyOf(DictGet(item.v[T("from")].v, T("name"), JStr(T("Unknown"))))
                        ELSE T("Unknown")
    IN  [k \in 1..n |->
            [platform  |-> "Facebook Messenger",
             timestamp |-> PyOf(DictGet(items[k].v, T("created_time"), JStr(ts))),
             sender    |-> sender(items[k]),
             content   |-> PyOf(DictGet(items[k].v, T("message"), JStr(<<>>)))]]

\* parse_facebook(http_obj, ts)
parse_facebook(http_obj, ts) ==
    LET path == HttpGet(http_obj, "path")
        body == HttpGet(http_obj, "body")
        m    == ReBodyParam(UnquotePlus(body))
        sent == IF (Contains(path, T("/messaging")) \/ Contains(Lower(path), T("message_send")))
                   /\ m # <<>>
                THEN <<[platform |-> "Facebook Messenger", timestamp |-> ts,
                        direction |-> "sent", content |-> UnquotePlus(m[1])]>>
                ELSE <<>>
        items(r) == IF r.ok THEN GraphItems(r.v, ts) ELSE <<>>
        graph == IF Contains(HttpHeader(http_obj, "host"), T("graph.facebook.com"))
                    /\ Contains(path, T("messages"))
                 THEN items(JsonLoads(body))
                 ELSE <<>>
    IN  IF http_obj = None THEN <<>> ELSE sent \o graph

\* The records parse_whatsapp appends for one frame.
WhatsAppFrame(frame, ts) ==
    LET loaded(r) ==
          LET jdata  == r.v
              isMsg  == /\ jdata.t = "list" /\ Len(jdata.v) >= 2
                        /\ jdata.v[2].t = "dict" /\ T("body") \in DOMAIN jdata.v[2].v
              data   == jdata.v[2].v
              raises == ~r.ok
                        \/ (isMsg /\ T("key") \in DOMAIN data /\ data[T("key")].t # "dict")
          IN  IF raises
              THEN IF Len(frame) > 2 /\ ~StartsWith(frame, T("<"))
                   THEN <<[platform |-> "WhatsApp (raw frame)", timestamp |-> ts,
                           content |-> Slice(frame, 0, 500)]>>
                   ELSE <<>>
              ELSE IF isMsg
              THEN <<[platform  |-> "WhatsApp", timestamp |-> ts,
                      tag       |-> PyOf(jdata.v[1]),
                      content   |-> PyOf(data[T("body")]),
                      from      |-> IF T("key") \in DOMAIN data
                                    THEN PyOf(DictGet(data[T("key")].v, T("remoteJid"),
                                                      JStr(<<>>)))
                                    ELSE <<>>]>>
              ELSE <<>>
    IN  loaded(JsonLoads(frame))

\* parse_whatsapp(http_obj, raw_payload, ts)
parse_whatsapp(http_obj, raw_payload, ts) ==
    LET frs == _extract_ws_frames(raw_payload)
        out[k \in 0..Len(frs)] == IF k = 0 THEN <<>> ELSE out[k - 1] \o WhatsAppFrame(frs[k], ts)
    IN  out[Len(frs)]

\* parse_textplus(http_obj, ts)
parse_textplus(http_obj, ts) ==
    LET path == HttpGet(http_obj, "path")
        m    == ReJsonBody(UnquotePlus(HttpGet(http_obj, "body")))
    IN  IF /\ http_obj # None
           /\ Contains(HttpHeader(http_obj, "host"), T("textplus"))
           /\ Contains(path, T("/messages")) \/ Contains(path, T("/send"))
           /\ m # <<>>
        THEN <<[platform |-> "TextPlus", timestamp |-> ts, direction |-> "sent", content |-> m[1]]>>
        ELSE <<>>

----------------------------------------------------------------------------
(* reconstructor.py: reconstruct *)

\* The Message Store: the dict results as the sequence of its items in
\* insertion order, each [key |-> platform, msgs |-> list].
StoreKeys(store) == {store[i].key : i \in DOMAIN store}

\* results[platform]
Bucket(store, platform) ==
    IF platform \in StoreKeys(store)
    THEN store[CHOOSE i \in DOMAIN store : store[i].key = platform].msgs
    ELSE <<>>

\* add(platform, msg) inserting the record at the head of the list.
AddMsg_Prepend(store, platform, msg) ==
    IF platform \in StoreKeys(store)
    THEN [i \in DOMAIN store |->
            IF store[i].key = platform
            THEN [key |-> platform, msgs |-> <<msg>> \o store[i].msgs] ELSE store[i]]
    ELSE Append(store, [key |-> platform, msgs |-> <<msg>>])

\* add(platform, msg): results.setdefault(platform, []).append(msg)
AddMsg(store, platform, msg) ==
    IF platform \in StoreKeys(store)
    THEN [i \in DOMAIN store |->
            IF store[i].key = platform
            THEN [key |-> platform, msgs |-> Append(store[i].msgs, msg)] ELSE store[i]]
    ELSE Append(store, [key |-> platform, msgs |-> <<msg>>])

\* The loop with the key created before it: results.setdefault(platform, [])
\* and then an append per record.
AddAll_CreatesKey(store, platform, msgs) ==
    LET base == IF platform \in StoreKeys(store) THEN store
                ELSE Append(store, [key |-> platform, msgs |-> <<>>])
    IN  [i \in DOMAIN base |->
            IF base[i].key = platform
            THEN [key |-> platform, msgs |-> base[i].msgs \o msgs] ELSE base[i]]

\* for m in msgs: add(platform, m)
AddAll(store, platform, msgs) ==
    LET out[k \in 0..Len(msgs)] ==
            IF k = 0 THEN store ELSE AddMsg(out[k - 1], platform, msgs[k])
    IN  out[Len(msgs)]

\* Line 291: bytes(pkt[Raw].load) if Raw in pkt else b""
RawOf(p) == IF HasLayer(p.raw) THEN p.raw[1] ELSE <<>>

SipPorts == {5060, 5061}
XmppPorts == {5222, 5223}
WebPorts == {80, 443, 8080}

\* The SIP condition testing the destination port only.
SipCondition_DportOnly(p) ==
    HasLayer(p.udp) /\ RawOf(p) # <<>> /\ p.udp[1].dport \in SipPorts

\* Line 300: ((UDP in pkt and raw and dport in ports) or sport in ports)
\* if UDP in pkt else False
SipCondition(p) ==
    IF HasLayer(p.udp)
    THEN (HasLayer(p.udp) /\ RawOf(p) # <<>> /\ p.udp[1].dport \in SipPorts)
         \/ p.udp[1].sport \in SipPorts
    ELSE FALSE

\* Lines 294-297: the DNS branch.
DnsBranch(store, p, ts) == AddAll(store, "DNS Queries", parse_dns(p, ts))

\* Lines 301-303: the SIP branch.
SipBranch(store, p, ts) == AddAll(store, "VoIP / SIP", parse_sip_voip(RawOf(p), ts))

\* The XMPP part with a record for the first body only.
XmppRecords_FirstBodyOnly(p, ts) ==
    LET xmpp == _xmpp_parse(RawOf(p))
    IN  IF HasLayer(p.tcp) /\ p.tcp[1].dport \in XmppPorts /\ xmpp # None
        THEN <<[platform |-> "XMPP", timestamp |-> ts, from |-> xmpp.from,
                to |-> xmpp.to, content |-> xmpp.bodies[1]]>>
        ELSE <<>>

\* Lines 333-343: the records of the XMPP part.
XmppRecords(p, ts) ==
    LET xmpp == _xmpp_parse(RawOf(p))
    IN  IF HasLayer(p.tcp) /\ p.tcp[1].dport \in XmppPorts /\ xmpp # None
        THEN [k \in 1..Len(xmpp.bodies) |->
                [platform |-> "XMPP", timestamp |-> ts, from |-> xmpp.from,
                 to |-> xmpp.to, content |-> xmpp.bodies[k]]]
        ELSE <<>>

MaxWsRecords == 5
MaxWsContent == 300
MaxPathLen == 120

\* The generic WebSocket part with a record for every frame.
WebSocketRecords_NoLimit(p, host, ts) ==
    LET frs == _extract_ws_frames(RawOf(p))
    IN  IF HasLayer(p.tcp) /\ p.tcp[1].dport \in WebPorts
        THEN [k \in 1..Len(frs) |->
                [platform |-> "WebSocket", timestamp |-> ts, host |-> host,
                 content |-> Slice(frs[k], 0, MaxWsContent)]]
        ELSE <<>>

\* Lines 346-355: the records of the generic WebSocket part.
WebSocketRecords(p, host, ts) ==
    LET frs == _extract_ws_frames(RawOf(p))
        n   == IF Len(frs) > MaxWsRecords THEN MaxWsRecords ELSE Len(frs)
    IN  IF HasLayer(p.tcp) /\ p.tcp[1].dport \in WebPorts
        THEN [k \in 1..n |->
                [platform |-> "WebSocket", timestamp |-> ts, host |-> host,
                 content |-> Slice(frs[k], 0, MaxWsContent)]]
        ELSE <<>>

\* The generic HTTP part with the path as it came.
HttpRecords_FullPath(http_obj, host, routed, ts) ==
    IF /\ http_obj # None /\ http_obj.type = "request" /\ ~routed
       /\ HttpGet(http_obj, "path") # <<>> /\ HttpGet(http_obj, "path") # T("/")
    THEN <<[platform |-> "HTTP", timestamp |-> ts,
            method |-> HttpGet(http_obj, "method"), host |-> host,
            path |-> HttpGet(http_obj, "path"),
            user_agent |-> HttpHeader(http_obj, "user-agent")]>>
    ELSE <<>>

\* Lines 358-368: the records of the generic HTTP part.
HttpRecords(http_obj, host, routed, ts) ==
    IF /\ http_obj # None /\ http_obj.type = "request" /\ ~routed
       /\ HttpGet(http_obj, "path") # <<>> /\ HttpGet(http_obj, "path") # T("/")
    THEN <<[platform |-> "HTTP", timestamp |-> ts,
            method |-> HttpGet(http_obj, "method"), host |-> host,
            path |-> Slice(HttpGet(http_obj, "path"), 0, MaxPathLen),
            user_agent |-> HttpHeader(http_obj, "user-agent")]>>
    ELSE <<>>

\* The decoders with the WhatsApp decoder run on every payload to a web port,
\* whatever the Host.
Dispatch_WhatsAppOnWebPorts(store, p, ts) ==
    LET routed(http_obj, host, is_fb, is_wa, is_tp) ==
            AddAll(
              AddAll(
                AddAll(
                  AddAll(
                    AddAll(
                      AddAll(store, "Facebook Messenger",
                             IF is_fb THEN parse_facebook(http_obj, ts) ELSE <<>>),
                      "WhatsApp",
                      IF is_wa THEN parse_whatsapp(http_obj, RawOf(p), ts) ELSE <<>>),
                    "TextPlus", IF is_tp THEN parse_textplus(http_obj, ts) ELSE <<>>),
                  "XMPP/Jabber (Messaging)", XmppRecords(p, ts)),
                "WebSocket Frames", WebSocketRecords(p, host, ts)),
              "HTTP Requests", HttpRecords(http_obj, host, is_fb \/ is_wa \/ is_tp, ts))
        hosted(http_obj, host) ==
            routed(http_obj, host,
                   Contains(host, T("facebook")) \/ Contains(host, T("messenger")),
                   Contains(host, T("whatsapp"))
                       \/ (HasLayer(p.tcp) /\ p.tcp[1].dport \in WebPorts),
                   Contains(host, T("textplus")))
        parsed(http_obj) ==
            hosted(http_obj, IF http_obj # None THEN HttpHeader(http_obj, "host") ELSE <<>>)
    IN  parsed(_parse_http(RawOf(p)))

\* The decoders as an if/elif chain: the first host that matches takes the
\* packet, and the generic parts see only what no platform took.
Dispatch_ElifChain(store, p, ts) ==
    LET chained(http_obj, host) ==
            IF Contains(host, T("facebook")) \/ Contains(host, T("messenger"))
            THEN AddAll(store, "Facebook Messenger", parse_facebook(http_obj, ts))
            ELSE IF Contains(host, T("whatsapp"))
            THEN AddAll(store, "WhatsApp", parse_whatsapp(http_obj, RawOf(p), ts))
            ELSE IF Contains(host, T("textplus"))
            THEN AddAll(store, "TextPlus", parse_textplus(http_obj, ts))
            ELSE AddAll(
                   AddAll(
                     AddAll(store, "XMPP/Jabber (Messaging)", XmppRecords(p, ts)),
                     "WebSocket Frames", WebSocketRecords(p, host, ts)),
                   "HTTP Requests", HttpRecords(http_obj, host, FALSE, ts))
        parsed(http_obj) ==
            chained(http_obj, IF http_obj # None THEN HttpHeader(http_obj, "host") ELSE <<>>)
    IN  parsed(_parse_http(RawOf(p)))

\* Lines 309-368: the decoders a packet with payload is routed to.
Dispatch(store, p, ts) ==
    LET routed(http_obj, host, is_fb, is_wa, is_tp) ==
            AddAll(
              AddAll(
                AddAll(
                  AddAll(
                    AddAll(
                      AddAll(store, "Facebook Messenger",
                             IF is_fb THEN parse_facebook(http_obj, ts) ELSE <<>>),
                      "WhatsApp",
                      IF is_wa THEN parse_whatsapp(http_obj, RawOf(p), ts) ELSE <<>>),
                    "TextPlus", IF is_tp THEN parse_textplus(http_obj, ts) ELSE <<>>),
                  "XMPP/Jabber (Messaging)", XmppRecords(p, ts)),
                "WebSocket Frames", WebSocketRecords(p, host, ts)),
              "HTTP Requests", HttpRecords(http_obj, host, is_fb \/ is_wa \/ is_tp, ts))
        hosted(http_obj, host) ==
            routed(http_obj, host,
                   Contains(host, T("facebook")) \/ Contains(host, T("messenger")),
                   Contains(host, T("whatsapp")),
                   Contains(host, T("textplus")))
        parsed(http_obj) ==
            hosted(http_obj, IF http_obj # None THEN HttpHeader(http_obj, "host") ELSE <<>>)
    IN  parsed(_parse_http(RawOf(p)))

\* The SIP branch falling through to the decoders when the SIP decode misses.
SipFallsThrough(store, p, ts, sip) ==
    IF sip /\ _sip_parse(RawOf(p)) # None THEN SipBranch(store, p, ts)
    ELSE IF RawOf(p) = <<>> THEN store
    ELSE Dispatch(store, p, ts)

\* Lines 299-368 under a given value of the SIP condition.
AfterDns(store, p, ts, sip) ==
    IF sip THEN SipBranch(store, p, ts)
    ELSE IF RawOf(p) = <<>> THEN store
    ELSE Dispatch(store, p, ts)

\* The DNS branch without its continue.
HandleWith_DnsFallsThrough(store, p, ts, sip) ==
    IF HasLayer(p.dns) THEN AfterDns(DnsBranch(store, p, ts), p, ts, sip)
    ELSE AfterDns(store, p, ts, sip)

\* Lines 293-368: the body of the loop under a given value of the SIP condition.
HandleWith(store, p, ts, sip) ==
    IF HasLayer(p.dns) THEN DnsBranch(store, p, ts)
    ELSE AfterDns(store, p, ts, sip)

\* Lines 290-368: what one pass of the loop makes of the store.
HandlePacket(store, p, offset) == HandleWith(store, p, _ts(p, offset), SipCondition(p))

\* A subscript of the loop body that no try encloses raises on p: pkt[UDP]
\* (line 300), parsed[...] (lines 244-248), xmpp["bodies"] (line 336),
\* http["type"] (line 358).
SubscriptRaises(p) ==
    LET buf  == RawOf(p)
        sip  == _sip_parse(buf)
        http_obj == _parse_http(buf)
        xmpp == _xmpp_parse(buf)
    IN  IF HasLayer(p.dns) THEN FALSE
        ELSE IF SipCondition(p)
        THEN sip # None /\ ~({"first", "from", "to", "call_id", "subject"} \subseteq DOMAIN sip)
        ELSE IF buf = <<>> THEN FALSE
        ELSE \/ /\ HasLayer(p.tcp) /\ p.tcp[1].dport \in XmppPorts
                /\ xmpp # None /\ "bodies" \notin DOMAIN xmpp
             \/ http_obj # None /\ "type" \notin DOMAIN http_obj

\* parse_whatsapp with its try removed: a frame json.loads rejects, or whose
\* "key" is no dict, raises out of the loop body.
PacketRaises_NoTryInWhatsApp(p) ==
    LET http_obj == _parse_http(RawOf(p))
        host == IF http_obj # None THEN HttpHeader(http_obj, "host") ELSE <<>>
        frs  == _extract_ws_frames(RawOf(p))
        bad(frame) ==
            LET r == JsonLoads(frame)
            IN  \/ ~r.ok
                \/ /\ r.v.t = "list" /\ Len(r.v.v) >= 2 /\ r.v.v[2].t = "dict"
                   /\ T("body") \in DOMAIN r.v.v[2].v /\ T("key") \in DOMAIN r.v.v[2].v
                   /\ r.v.v[2].v[T("key")].t # "dict"
    IN  \/ SubscriptRaises(p)
        \/ /\ ~HasLayer(p.dns) /\ ~SipCondition(p) /\ RawOf(p) # <<>>
           /\ Contains(host, T("whatsapp"))
           /\ \E k \in DOMAIN frs : bad(frs[k])

\* An exception leaves the body of the loop on p: every decoder absorbs its own
\* failures (the except clauses of lines 24, 75, 103, 128, 141, 179, 206, 264),
\* so only a statement outside them can raise.
PacketRaises(p) == SubscriptRaises(p)

\* A failed load answered like a scan that found nothing.
LoadFailure_Empty(e) == <<>>

\* Line 282: the result of a failed load.
LoadFailure(e) == <<[key |-> "error", msgs |-> <<[content |-> e]>>]>>

\* Line 277: the result without scapy.
NoScapy == <<[key |-> "error", msgs |-> <<T("Scapy not available")>>]>>

----------------------------------------------------------------------------
(* Inputs of the classifier and of parse_dns *)

\* Ports the test packets use: DNS, HTTPS, XMPP (Messaging) and an ephemeral one.
TestPorts == {53, 443, 5222, 40000}

PortPairs == [sport : TestPorts, dport : TestPorts]

\* Question names as scapy hands them over (bytes, with the root label's dot),
\* one without the dot, one with two, the root, and one that is not UTF-8.
TestQnames ==
    { T("netflix.com."), T("www.youtube.com."), T("example.com."), T("example.com"),
      T("mail.gmail.com.."), T("."), <<255, 254, 46>> }

TestDns ==
    {<<>>} \cup { <<[qr |-> q, qd |-> d]>> : q \in {0, 1},
                                         d \in {<<>>} \cup {<<n>> : n \in TestQnames} }

TestIp == { <<>>, <<[src |-> "10.0.0.5", dst |-> "10.0.0.1"]>> }

\* The transport layers: none, TCP, UDP, or (tunnelled) both.
TestL4 ==
    {[tcp |-> <<>>, udp |-> <<>>]}
    \cup {[tcp |-> <<pp>>, udp |-> <<>>] : pp \in PortPairs}
    \cup {[tcp |-> <<>>, udp |-> <<pp>>] : pp \in PortPairs}
    \cup {[tcp |-> <<[sport |-> a, dport |-> a]>>, udp |-> <<[sport |-> b, dport |-> b]>>] :
            a \in TestPorts, b \in TestPorts}

\* The ts argument of parse_dns: a formatted capture time, or "Unknown".
TestTimestamps == {"2024-01-01 00:00:00", "Unknown"}

Packets ==
    { [ip |-> i, tcp |-> l.tcp, udp |-> l.udp, dns |-> d] :
        i \in TestIp, l \in TestL4, d \in TestDns }

\* The question name a packet carries, <<>> when it carries none.
QuestionName(p) == IF HasLayer(p.dns) THEN p.dns[1].qd ELSE <<>>

\* The two packets have the same port set and the same DNS question name.
SamePortsAndName(p, q) ==
    PacketPorts(p) = PacketPorts(q) /\ QuestionName(p) = QuestionName(q)

IdlePkt ==
    /\ pkt = <<>> /\ pkt2 = <<>> /\ cls = <<>> /\ cls2 = <<>> /\ dnsMsgs = <<>>

IdleWs ==
    /\ payload = <<>> /\ wi = 0 /\ frames = <<>> /\ wpc = "off" /\ wrun = 0 /\ wprev = <<>>
    /\ wparts = <<>>

IdleHttp ==
    /\ raw = <<>> /\ rawParts = <<>> /\ http = <<>>

IdleRec ==
    /\ tz = 0 /\ packets = <<>> /\ loadErr = <<>> /\ rpos = 0 /\ results = <<>>
    /\ SCAPY = TRUE /\ pcap = <<>> /\ rpc = "off" /\ rrun = 0 /\ rprev = <<>>

\* No iteration over the traffic table is under way.
NoPass == [pass |-> "none", size |-> 0, left |-> {}, total |-> 0, packets |-> 0]

IdleCap ==
    /\ duration = 0 /\ capStats = [elapsed |-> 0, packets |-> 0] /\ progress = NoPass
    /\ stopEv = FALSE /\ capT = "none" /\ sniffPc = "off" /\ elapsed = 0
    /\ all_packets = <<>> /\ traffic = <<>> /\ devices = <<>> /\ savePc = "idle"
    /\ saved = <<>>

----------------------------------------------------------------------------
(* Inputs of reconstruct *)

\* A WebSocket frame with FIN set, no mask and a 7-bit length.
PlainFrame(opcode, data) == <<128 + opcode, Len(data)>> \o data

\* An HTTP request to WhatsApp of 71 bytes: read as a WebSocket stream, "GE" is
\* the header of a frame of opcode 7 and length 69, so the scan resumes right
\* behind the request.
WhatsAppUpgrade ==
    T("GET /ws HTTP/1.1\r\nHost: web.whatsapp.com\r\nX-Pad: pppppppppppppppppp\r\n\r\n")

SipInvite ==
    T("INVITE sip:bob@example.com SIP/2.0\r\nFrom: alice\r\nTo: bob\r\nCall-ID: c1\r\n\r\n")

HttpGetIndex == T("GET /index.html HTTP/1.1\r\nHost: example.com\r\nUser-Agent: ua\r\n\r\n")

HttpNoHeaders == T("GET /only HTTP/1.1\r\n\r\n")

FbSend == T("POST /messaging/send HTTP/1.1\r\nHost: www.facebook.com\r\n\r\nbody=hi+there%21&x=1")

FbGraphHead == T("GET /me/messages HTTP/1.1\r\nHost: graph.facebook.com\r\n\r\n")

\* A Graph API reply whose second item has a "from" that is no object.
FbGraph ==
    FbGraphHead \o J("{'data':[{'message':'a'},{'from':'x','message':'b'},{'message':'c'}]}")

\* A Graph API reply cut short.
FbGraphCut == FbGraphHead \o J("{'data':")

\* WhatsApp Web frames: a message, plain text, a message whose "key" is no
\* object, an XML stanza, and malformed JSON.
WhatsAppChat ==
    WhatsAppUpgrade
    \o PlainFrame(1, J("['t1',{'body':'hello','key':{'remoteJid':'j1'}}]"))
    \o PlainFrame(1, T("hello there"))
    \o PlainFrame(1, J("['t3',{'body':'b','key':'k'}]"))
    \o PlainFrame(1, T("<x>nope</x>"))
    \o PlainFrame(2, J("{oops"))

TextPlusSend ==
    T("POST /send HTTP/1.1\r\nHost: api.textplus.com\r\n\r\n") \o J("{'body': 'yo'}")

XmppChat == T("<message from='a@x' to='b@x'><body>hi</body><body>again</body></message>")

\* Six text frames.
WsSix ==
    PlainFrame(1, T("a")) \o PlainFrame(1, T("b")) \o PlainFrame(1, T("c"))
    \o PlainFrame(2, T("d")) \o PlainFrame(1, T("e")) \o PlainFrame(1, T("f"))

\* Bytes that are neither text nor a complete frame.
Undecodable == <<255, 254, 253>>

TestPayloads ==
    {SipInvite, HttpGetIndex, HttpNoHeaders, FbSend, FbGraph, FbGraphCut, WhatsAppChat,
     TextPlusSend, XmppChat, WsSix, Undecodable}

\* The transports of the capture: none, TCP to a web, an XMPP and another port,
\* UDP to and from the SIP ports and between other ports.
ScanL4 ==
    {[tcp |-> <<>>, udp |-> <<>>]}
    \cup {[tcp |-> <<[sport |-> 51000, dport |-> d]>>, udp |-> <<>>] : d \in {80, 443, 5222, 9999}}
    \cup {[tcp |-> <<>>, udp |-> <<pp>>] :
            pp \in {[sport |-> 51000, dport |-> 5060], [sport |-> 5061, dport |-> 51000],
                    [sport |-> 51000, dport |-> 9999]}}

\* No DNS layer, a query, a response, and a query whose name is not UTF-8.
ScanDns ==
    {<<>>, <<[qr |-> 0, qd |-> <<T("example.com.")>>]>>, <<[qr |-> 1, qd |-> <<T("example.com.")>>]>>,
     <<[qr |-> 0, qd |-> <<<<255, 254, 46>>>>]>>}

\* Capture times: 2024-01-01 00:30:00 UTC, and one no calendar year holds.
ScanTimes == {[day |-> 19723, sec |-> 1800]}
FarTime == [day |-> 11574074, sec |-> 0]

\* Every transport with every DNS layer and every payload.
ScanPackets ==
    { [ip |-> <<[src |-> "10.0.0.5", dst |-> "10.0.0.1"]>>, tcp |-> l.tcp, udp |-> l.udp,
       dns |-> d, raw |-> r, time |-> t] :
        l \in ScanL4, d \in ScanDns, r \in {<<>>} \cup {<<b>> : b \in TestPayloads},
        t \in ScanTimes }

\* A packet of the capture.
ScanPkt(l4, d, r, t) ==
    [ip |-> <<[src |-> "10.0.0.5", dst |-> "10.0.0.1"]>>, tcp |-> l4.tcp, udp |-> l4.udp,
     dns |-> d, raw |-> r, time |-> t]

TcpTo(port) == [tcp |-> <<[sport |-> 51000, dport |-> port]>>, udp |-> <<>>]
UdpTo(port) == [tcp |-> <<>>, udp |-> <<[sport |-> 51000, dport |-> port]>>]

NewYear == [day |-> 19723, sec |-> 1800]

\* An HTTP request, and a SIP call.
HttpPacket == ScanPkt(TcpTo(80), <<>>, <<HttpGetIndex>>, NewYear)
SipPacket == ScanPkt(UdpTo(5060), <<>>, <<SipInvite>>, NewYear)

\* Packets whose content some decoder fails on: malformed JSON, bytes that are
\* no text, a question name that is not UTF-8, a time no calendar holds.
MalformedPackets ==
    { ScanPkt(TcpTo(443), <<>>, <<WhatsAppChat>>, NewYear),
      ScanPkt(TcpTo(80), <<>>, <<FbGraphCut>>, NewYear),
      ScanPkt(TcpTo(80), <<>>, <<Undecodable>>, NewYear),
      ScanPkt(UdpTo(9999), <<[qr |-> 0, qd |-> <<<<255, 254, 46>>>>]>>, <<>>, NewYear),
      ScanPkt(TcpTo(80), <<>>, <<HttpGetIndex>>, FarTime) }

\* The packets the longer captures are made of.
CorePackets ==
    MalformedPackets
    \cup { HttpPacket, SipPacket,
           ScanPkt(UdpTo(9999), <<[qr |-> 0, qd |-> <<T("example.com.")>>]>>, <<>>, NewYear),
           ScanPkt(TcpTo(5222), <<>>, <<XmppChat>>, NewYear) }

MaxPackets == 2

\* The captures: every sequence of core packets up to MaxPackets, every packet
\* alone, every packet followed by an HTTP request or a SIP call, and every
\* packet behind an HTTP request.
ScanSequences ==
    UNION {[1..n -> CorePackets] : n \in 0..MaxPackets}
    \cup {<<a>> : a \in ScanPackets}
    \cup {<<a, b>> : a \in ScanPackets, b \in {HttpPacket, SipPacket}}
    \cup {<<HttpPacket, a>> : a \in ScanPackets}

\* str(e) of the exceptions rdpcap raises.
LoadCauses == {T("No data could be read!"), T("Not a supported capture file"), <<>>}

\* The capture file: one rdpcap reads, or one it raises on.
ScanFiles ==
    {[ok |-> TRUE, pkts |-> ps, cause |-> <<>>] : ps \in ScanSequences}
    \cup {[ok |-> FALSE, pkts |-> <<>>, cause |-> c] : c \in LoadCauses}

\* The host's offset from UTC: UTC, and five hours behind it.
Offsets == {0, -18000}

----------------------------------------------------------------------------
(* The classifier applied to one packet, and parse_dns *)

InitClassify ==
    /\ pkt \in Packets
    /\ pkt2 = <<>>
    /\ cls = <<>> /\ cls2 = <<>> /\ dnsMsgs = <<>>
    /\ IdleWs /\ IdleHttp /\ IdleRec /\ IdleCap

\* cat, domains = classify_packet(pkt)
Classify ==
    /\ pkt # <<>> /\ cls = <<>>
    /\ cls' = <<classify_packet(pkt)>>
    /\ UNCHANGED <<pkt, pkt2, cls2, dnsMsgs, wsVars, httpVars, recVars, capVars>>

\* parse_dns(pkt, ts), ts one of the texts the caller passes
ParseDns ==
    /\ pkt # <<>> /\ pkt2 = <<>> /\ dnsMsgs = <<>>
    /\ \E ts \in TestTimestamps : dnsMsgs' = <<parse_dns(pkt, ts)>>
    /\ UNCHANGED <<pkt, pkt2, cls, cls2, wsVars, httpVars, recVars, capVars>>

NextClassify == Classify \/ ParseDns

SpecClassify == InitClassify /\ [][NextClassify]_vars

(* Two packets with the same port set and question name, both classified *)

InitPair ==
    /\ pkt \in Packets
    /\ pkt2 \in {q \in Packets : SamePortsAndName(pkt, q)}
    /\ cls = <<>> /\ cls2 = <<>> /\ dnsMsgs = <<>>
    /\ IdleWs /\ IdleHttp /\ IdleRec /\ IdleCap

\* classify_packet(pkt2)
Classify2 ==
    /\ pkt2 # <<>> /\ cls2 = <<>>
    /\ cls2' = <<classify_packet(pkt2)>>
    /\ UNCHANGED <<pkt, pkt2, cls, dnsMsgs, wsVars, httpVars, recVars, capVars>>

NextPair == Classify \/ Classify2

SpecPair == InitPair /\ [][NextPair]_vars

----------------------------------------------------------------------------
(* Claims about classify_packet and parse_dns *)

\* Some non-"Other" category matches the observed domains by substring.
AnyDomainHit(domains) ==
    \E k \in 1..Len(SIGNATURES) :
        SIGNATURES[k].cat # "Other" /\ DomainHit(SIGNATURES[k], domains)

\* Some non-"Other" category holds one of the ports.
AnyPortHit(ports) ==
    \E k \in 1..Len(SIGNATURES) :
        SIGNATURES[k].cat # "Other" /\ PortHit(SIGNATURES[k], ports)

\* The first category in declaration order that matches by domain.
FirstDomainCategory(domains) ==
    SIGNATURES[CHOOSE k \in 1..Len(SIGNATURES) :
        /\ SIGNATURES[k].cat # "Other" /\ DomainHit(SIGNATURES[k], domains)
        /\ \A j \in 1..(k - 1) : ~DomainHit(SIGNATURES[j], domains)].cat

\* The first category in declaration order that matches by port.
FirstPortCategory(ports) ==
    SIGNATURES[CHOOSE k \in 1..Len(SIGNATURES) :
        /\ SIGNATURES[k].cat # "Other" /\ PortHit(SIGNATURES[k], ports)
        /\ \A j \in 1..(k - 1) : ~PortHit(SIGNATURES[j], ports)].cat

\* What a domain pass over all categories followed by a port pass returns.
TwoPhaseCategory(ports, domains) ==
    IF AnyDomainHit(domains) THEN FirstDomainCategory(domains)
    ELSE IF AnyPortHit(ports) THEN FirstPortCategory(ports)
    ELSE "Other"

\* C1: whenever a category matches an observed domain, classify_packet returns
\* the first such category in declaration order, even when an earlier category
\* holds one of the packet's ports; ports decide only when no domain matches.
\* (The domains observed are the ones classify_packet returns.)
C1_DomainPassBeforePortPass ==
    (cls # <<>> /\ HasLayer(pkt.ip)) =>
        cls[1].cat = TwoPhaseCategory(PacketPorts(pkt), cls[1].domains)

\* C2: a packet with port 443 among its ports and an observed DNS domain that
\* contains "netflix.com" is classified "Video Streaming".
C2_NetflixIsVideoStreaming ==
    (/\ cls # <<>>
     /\ 443 \in PacketPorts(pkt)
     /\ \E d \in cls[1].domains : Contains(d, T("netflix.com")))
        => cls[1].cat = "Video Streaming"

\* The packet is a DNS query (qr = 0).
IsDnsQuery(p) == HasLayer(p.dns) /\ p.dns[1].qr = 0

\* C3 as stated: two packets with the same port set and the same DNS question
\* name (or both without one) get the identical (category, domains) result.
C3_PortsAndNameDecide ==
    (cls # <<>> /\ cls2 # <<>>) => cls = cls2

\* C3 amended: two packets with the same port set and question name that also
\* agree on having an IP layer and on being a DNS query get the identical result.
C3_IpPortsAndQueryNameDecide ==
    (/\ cls # <<>> /\ cls2 # <<>>
     /\ HasLayer(pkt.ip) = HasLayer(pkt2.ip)
     /\ IsDnsQuery(pkt) = IsDnsQuery(pkt2))
        => cls = cls2

\* Two different packets, one TCP and one UDP, the ports in opposite directions,
\* both classified by a signature.
C3_Witness ==
    /\ cls # <<>> /\ cls2 # <<>>
    /\ HasLayer(pkt.ip) /\ HasLayer(pkt2.ip)
    /\ IsDnsQuery(pkt) /\ IsDnsQuery(pkt2)
    /\ HasLayer(pkt.tcp) /\ ~HasLayer(pkt2.tcp)
    /\ pkt.tcp[1].sport # pkt.tcp[1].dport
    /\ pkt2.udp[1].sport = pkt.tcp[1].dport
    /\ cls[1].cat = "Web (HTTPS)" /\ cls[1].domains # {}

\* The domains classify_packet has collected when it returns: none for a packet
\* without an IP layer (it returns before it looks at the DNS layer).
ObservedDomains(p) == IF HasLayer(p.ip) THEN PacketDomains(p) ELSE {}

\* C4: classify_packet returns a key of SIGNATURES, and "Other" with exactly the
\* observed domains when no domain substring and no port of any category matches.
C4_TotalWithOtherFallback ==
    cls # <<>> =>
        /\ cls[1].cat \in Categories
        /\ (~AnyDomainHit(ObservedDomains(pkt)) /\ ~AnyPortHit(PacketPorts(pkt)))
              => cls[1] = [cat |-> "Other", domains |-> ObservedDomains(pkt)]

\* A DNS query for example.com from an unlisted port falls through to "Other"
\* and keeps its domain.
C4_Witness ==
    /\ cls # <<>>
    /\ HasLayer(pkt.ip)
    /\ ~AnyPortHit(PacketPorts(pkt)) /\ PacketPorts(pkt) # {}
    /\ cls[1] = [cat |-> "Other", domains |-> {T("example.com")}]

\* text is name without its trailing dots.
IsNameWithoutTrailingDots(text, name) ==
    /\ text = <<>> \/ text[Len(text)] # Ord(".")
    /\ \E k \in 0..Len(name) :
          /\ SubSeq(name, 1, Len(name) - k) = text
          /\ \A j \in (Len(name) - k + 1)..Len(name) : name[j] = Ord(".")

\* C5: parse_dns yields a record only for a query (qr = 0), never for a response
\* (qr = 1); a query whose question name is present and decodes yields exactly one
\* record, its name without the trailing dot ("example.com." gives "example.com").
C5_DnsRecordOnlyOnQuery ==
    dnsMsgs # <<>> =>
        LET msgs == dnsMsgs[1] IN
        /\ msgs # <<>> => IsDnsQuery(pkt)
        /\ (HasLayer(pkt.dns) /\ pkt.dns[1].qr = 1) => msgs = <<>>
        /\ (IsDnsQuery(pkt) /\ HasLayer(pkt.dns[1].qd) /\ ~DecodeRaises(pkt.dns[1].qd[1]))
              => /\ Len(msgs) = 1
                 /\ IsNameWithoutTrailingDots(msgs[1].query, Utf8Decode(pkt.dns[1].qd[1]))
        /\ (IsDnsQuery(pkt) /\ pkt.dns[1].qd = <<T("example.com.")>>)
              => msgs[1].query = T("example.com")

\* A query for "example.com." has produced its record.
C5_Witness ==
    /\ dnsMsgs # <<>>
    /\ IsDnsQuery(pkt) /\ pkt.dns[1].qd = <<T("example.com.")>>
    /\ Len(dnsMsgs[1]) = 1 /\ dnsMsgs[1][1].query = T("example.com")

----------------------------------------------------------------------------
(* Inputs of _extract_ws_frames: buffers assembled from WebSocket frames *)

RECURSIVE ToBytesBig(_, _)
\* n.to_bytes(k, "big")
ToBytesBig(n, k) ==
    IF k = 0 THEN <<>> ELSE ToBytesBig(n \div 256, k - 1) \o <<n % 256>>

\* The wire bytes of one frame: header, extended length, mask key, payload.
WsFrame(f) ==
    LET n    == Len(f.data)
        len7 == IF f.form = "base" THEN n ELSE IF f.form = "ext16" THEN 126 ELSE 127
        ext  == IF f.form = "base" THEN <<>>
                ELSE IF f.form = "ext16" THEN ToBytesBig(n, 2) ELSE ToBytesBig(n, 8)
    IN  <<f.fin * 128 + f.opcode, (IF f.masked THEN 128 ELSE 0) + len7>> \o ext
        \o (IF f.masked THEN f.key \o Unmask(f.data, f.key) ELSE f.data)

\* Frame payloads: empty, ASCII, a two-byte UTF-8 character, a byte that is not UTF-8.
TestData == { <<>>, T("Hello"), T("hi"), <<195, 169>>, <<255>> }

TestKeys == { <<1, 2, 3, 4>> }

\* Text, binary, continuation and ping frames in the three length encodings.
FrameSpecs ==
    [fin : {0, 1}, opcode : {0, 1, 2, 9}, masked : BOOLEAN,
     form : {"base", "ext16", "ext64"}, key : TestKeys, data : TestData]

\* The frames that a second frame is put behind.
LeadFrameSpecs ==
    [fin : {1}, opcode : {1, 9}, masked : BOOLEAN,
     form : {"base", "ext16"}, key : TestKeys, data : {<<>>, T("hi")}]

\* buf without its last k bytes.
CutTail(buf, k) == SubSeq(buf, 1, Len(buf) - k)

RECURSIVE Assemble(_)
\* The buffer of the parts in order, each frame without its last `cut` bytes.
Assemble(parts) ==
    IF parts = <<>> THEN <<>>
    ELSE CutTail(WsFrame(parts[1].frame), parts[1].cut) \o Assemble(Tail(parts))

\* Frames of every opcode with a payload, in the 16-bit and the 64-bit form.
LongFormSpecs ==
    [fin : {1}, opcode : {0, 1, 2, 9}, masked : BOOLEAN,
     form : {"ext16", "ext64"}, key : TestKeys, data : {T("hi")}]

\* A text frame, a frame of any opcode in a long form, and a binary frame.
ThreeFrames ==
    { << [frame |-> [fin |-> 1, opcode |-> 1, masked |-> FALSE, form |-> "base",
                     key |-> <<1, 2, 3, 4>>, data |-> T("Hello")], cut |-> 0],
         [frame |-> f, cut |-> 0],
         [frame |-> [fin |-> 1, opcode |-> 2, masked |-> TRUE, form |-> "base",
                     key |-> <<1, 2, 3, 4>>, data |-> <<195, 169>>], cut |-> 0] >> :
        f \in LongFormSpecs }

\* One frame cut anywhere (cut = 0: complete), a complete frame followed by
\* a frame that is complete or one byte short, or three complete frames.
TestParts ==
    UNION { { <<[frame |-> f, cut |-> k]>> : k \in 0..Len(WsFrame(f)) } : f \in FrameSpecs }
    \cup { <<[frame |-> f, cut |-> 0], [frame |-> g, cut |-> k]>> :
             f \in LeadFrameSpecs, g \in LeadFrameSpecs, k \in 0..1 }
    \cup ThreeFrames

\* Bytes of arbitrary buffers: header bytes of every kind and a data byte.
TestBytes == {0, 5, 126, 127, 129, 254, 255}

\* The longest arbitrary buffer.
MaxRawLen == 3

RECURSIVE BytesUpTo(_)
\* Every buffer over TestBytes of length at most n.
BytesUpTo(n) ==
    IF n = 0 THEN {<<>>}
    ELSE LET shorter == BytesUpTo(n - 1)
         IN  shorter \cup {Append(b, x) : b \in {c \in shorter : Len(c) = n - 1}, x \in TestBytes}

\* How many times _extract_ws_frames is called on the buffer.
MaxRuns == 2

----------------------------------------------------------------------------
(* _extract_ws_frames as its loop runs *)

\* The buffers a caller passes, each with the parts it was assembled from.
WsInputs ==
    {[parts |-> ps, buf |-> Assemble(ps)] : ps \in TestParts}
    \cup {[parts |-> <<>>, buf |-> b] : b \in BytesUpTo(MaxRawLen)}

InitWs ==
    /\ payload = <<>> /\ wparts = <<>>
    /\ wi = 0 /\ frames = <<>> /\ wpc = "idle" /\ wrun = 0 /\ wprev = <<>>
    /\ IdlePkt /\ IdleHttp /\ IdleRec /\ IdleCap

\* Lines 82-83: frames = [], i = 0.
WsEnter == [i |-> 0, frames |-> <<>>]

\* _extract_ws_frames(payload) is called: the first time on a buffer of the
\* caller's choice, after that on the same buffer again.
WsCall ==
    /\ wpc = "idle" /\ wrun < MaxRuns
    /\ IF wrun = 0
       THEN \E in \in WsInputs : payload' = in.buf /\ wparts' = in.parts
       ELSE UNCHANGED <<payload, wparts>>
    /\ wi' = WsEnter.i /\ frames' = WsEnter.frames
    /\ wpc' = "loop" /\ wrun' = wrun + 1
    /\ UNCHANGED <<wprev, pktVars, httpVars, recVars, capVars>>

\* One pass of the while loop: lines 84-104.
WsLoop ==
    /\ wpc = "loop" /\ wi + 2 <= Len(payload)
    /\ \E f \in {WsFrameAt(payload, wi)} :
          IF f.raises
          THEN wpc' = "done" /\ UNCHANGED <<wi, frames>>
          ELSE wi' = f.next /\ frames' = frames \o WsEmit(f) /\ wpc' = "loop"
    /\ UNCHANGED <<payload, wrun, wprev, wparts, pktVars, httpVars, recVars, capVars>>

\* The loop condition fails: line 105, return frames.
WsReturn ==
    /\ wpc = "loop" /\ ~(wi + 2 <= Len(payload))
    /\ wpc' = "done"
    /\ UNCHANGED <<payload, wi, frames, wrun, wprev, wparts, pktVars, httpVars, recVars, capVars>>

\* The caller keeps the list and calls again on the same buffer.
WsAgain ==
    /\ wpc = "done" /\ wrun < MaxRuns
    /\ wprev' = frames /\ wpc' = "idle"
    /\ UNCHANGED <<payload, wi, frames, wrun, wparts, pktVars, httpVars, recVars, capVars>>

NextWs == WsCall \/ WsLoop \/ WsReturn \/ WsAgain

SpecWs == InitWs /\ [][NextWs]_vars

\* The interpreter keeps running the call: every enabled step is taken.
FairSpecWs == SpecWs /\ WF_vars(NextWs)

----------------------------------------------------------------------------
(* Claims about _extract_ws_frames *)

RECURSIVE Utf8Encode(_)
\* str.encode("utf-8")
Utf8Encode(text) ==
    IF text = <<>> THEN <<>>
    ELSE LET c == text[1]
             head == IF c < 128 THEN <<c>>
                     ELSE IF c < 2048 THEN <<192 + (c \div 64), 128 + (c % 64)>>
                     ELSE IF c < 65536
                          THEN <<224 + (c \div 4096), 128 + ((c \div 64) % 64), 128 + (c % 64)>>
                     ELSE <<240 + (c \div 262144), 128 + ((c \div 4096) % 64),
                            128 + ((c \div 64) % 64), 128 + (c % 64)>>
         IN  head \o Utf8Encode(Tail(text))

\* Header 0x81 0x85, mask key 01 02 03 04, then "Hello" XORed with the key.
HelloFrame == <<129, 133, 1, 2, 3, 4, 73, 103, 111, 104, 110>>

\* C6: a buffer that is one complete text frame yields exactly one string; masked,
\* its byte i is payload byte i XOR mask[i mod 4], which restores the text that was
\* masked; unmasked, it is the payload unchanged.  HelloFrame yields ["Hello"].
C6_SingleTextFrameUnmasked ==
    /\ (/\ wpc = "done" /\ Len(wparts) = 1 /\ wparts[1].cut = 0
        /\ wparts[1].frame.opcode = 1 /\ ~DecodeRaises(wparts[1].frame.data))
          => LET f    == wparts[1].frame
                 off  == Len(payload) - Len(f.data)
                 wire == SubSeq(payload, off + 1, Len(payload))
                 key  == SubSeq(payload, off - 3, off)
             IN  /\ Len(frames) = 1
                 /\ Utf8Encode(frames[1]) =
                        IF f.masked
                        THEN [i \in 1..Len(wire) |-> Xor(wire[i], key[((i - 1) % 4) + 1])]
                        ELSE wire
                 /\ Utf8Encode(frames[1]) = f.data
    /\ (wpc = "done" /\ payload = HelloFrame) => frames = <<T("Hello")>>

\* The scan of HelloFrame has returned ["Hello"].
C6_Witness ==
    /\ wpc = "done" /\ payload = HelloFrame /\ frames = <<T("Hello")>>
    /\ Len(wparts) = 1 /\ wparts[1].frame.masked /\ wparts[1].cut = 0

\* C7: a frame is emitted only when all of it is in the buffer: the scan returns
\* no more frames than the buffer holds complete ones, and a buffer of one frame
\* that is short of its declared length yields the empty list.
C7_IncompleteFrameNotEmitted ==
    /\ (wpc = "done" /\ Len(wparts) = 1 /\ wparts[1].frame.opcode = 1
        /\ wparts[1].cut = 1 /\ Len(wparts[1].frame.data) >= 1)
          => frames = <<>>
    /\ (wpc = "done" /\ wparts # <<>>)
          => Len(frames) <= Cardinality({k \in 1..Len(wparts) : wparts[k].cut = 0})

\* C8: every pass of the loop that goes on moves the index forward, every call
\* returns, and a second call on the same buffer returns the same list.
C8_ScanTerminatesAndRestarts ==
    /\ [][(WsLoop /\ wpc' = "loop") => wi' > wi]_vars
    /\ <>(wpc = "done" /\ wrun = MaxRuns)
    /\ [](wpc = "done" /\ wrun > 1 => frames = wprev)

\* The second call on a two-frame buffer has returned the two frames again.
C8_Witness ==
    /\ wpc = "done" /\ wrun > 1 /\ Len(frames) = 2 /\ frames = wprev /\ wi = Len(payload)

RECURSIVE DataFramePayloads(_)
\* The payloads, as text, of the frames of opcode 1 or 2 among the parts, in
\* their order.
DataFramePayloads(parts) ==
    IF parts = <<>> THEN <<>>
    ELSE (IF parts[1].frame.opcode \in {1, 2} THEN <<Utf8Decode(parts[1].frame.data)>>
          ELSE <<>>)
         \o DataFramePayloads(Tail(parts))

\* C23: for a buffer that is a concatenation of complete frames, in any of the
\* three length forms and masked or not, the scan returns the payloads of the
\* frames of opcode 1 or 2 and of no other, in buffer order, and ends at the
\* end of the buffer: a frame of another opcode is passed over by its full
\* length.
C23_DataFramesInOrder ==
    (wpc = "done" /\ wparts # <<>> /\ \A k \in DOMAIN wparts : wparts[k].cut = 0)
        => /\ frames = DataFramePayloads(wparts)
           /\ wi = Len(payload)

\* The scan of a text frame, a ping with a 64-bit length and a masked binary
\* frame has returned the two payloads.
C23_Witness ==
    /\ wpc = "done" /\ Len(wparts) = 3
    /\ wparts[2].frame.opcode = 9 /\ wparts[2].frame.form = "ext64" /\ wparts[2].frame.masked
    /\ frames = <<T("Hello"), <<233>>>>
    /\ wi = Len(payload)

----------------------------------------------------------------------------
(* Inputs of _parse_http: buffers serialised from messages *)

\* Request lines of every verb, one with a longer path.
RequestStarts ==
    { <<v, pth, T("HTTP/1.1")>> : v \in Verbs, pth \in {T("/foo"), T("/")} }

\* Status lines with a one-word reason, a two-word reason and none.
ResponseStarts ==
    { <<T("HTTP/1.1"), T("200"), T("OK")>>, <<T("HTTP/1.1"), T("404"), T("Not"), T("Found")>>,
      <<T("HTTP/1.1"), T("204")>> }

\* First lines that are neither, or that have a single token.
OtherStarts ==
    { <<T("GET")>>, <<T("HTTP/1.1")>>, <<T("get"), T("/foo"), T("HTTP/1.1")>>,
      <<>>, <<T("POST")>>, <<T("HTTP")>>, <<T("SIP/2.0"), T("200"), T("OK")>>,
      <<<<255, 254>>, T("/")>> }

\* Header lines: key, colon, padding, value; one line without a colon.
TestHeaders ==
    { [key |-> T("Host"), colon |-> TRUE, pad |-> T(" "), value |-> T("x.com")],
      [key |-> T("HOST"), colon |-> TRUE, pad |-> <<>>, value |-> T("y.org")],
      [key |-> T("X-Time"), colon |-> TRUE, pad |-> T("  "), value |-> T("12:30")],
      [key |-> T("Content-Encoding"), colon |-> TRUE, pad |-> T(" "), value |-> T("gzip")],
      [key |-> T("content-encoding"), colon |-> TRUE, pad |-> T(" "), value |-> T("deflate")],
      [key |-> T("garbage"), colon |-> FALSE, pad |-> <<>>, value |-> <<>>] }

\* The most header lines of a message.
MaxHeaders == 2

RECURSIVE HeadersUpTo(_)
\* Every sequence over TestHeaders of length at most n.
HeadersUpTo(n) ==
    IF n = 0 THEN {<<>>}
    ELSE LET shorter == HeadersUpTo(n - 1)
         IN  shorter \cup {Append(h, x) : h \in {c \in shorter : Len(c) = n - 1},
                                          x \in TestHeaders}

\* Bodies: empty, text, text of two lines, blank lines, a gzip stream, a zlib
\* stream, a two-byte UTF-8 character.
TestBodies ==
    { <<>>, T("hi"), T("a\r\nb"), T("\r\n\r\nx"),
      (CHOOSE e \in GzipStreams : e.plain = T("hi")).packed,
      (CHOOSE e \in ZlibStreams : e.plain = T("hi")).packed,
      <<195, 169>> }

\* A message: the tokens of its first line, its header lines, whether the blank
\* line follows them, and the body bytes behind the blank line.
HttpMessages ==
    { [start |-> st, hdrs |-> hs, blank |-> TRUE, body |-> b] :
        st \in RequestStarts \cup ResponseStarts \cup OtherStarts,
        hs \in HeadersUpTo(MaxHeaders), b \in TestBodies }
    \cup
    { [start |-> st, hdrs |-> hs, blank |-> FALSE, body |-> <<>>] :
        st \in RequestStarts \cup ResponseStarts \cup OtherStarts,
        hs \in HeadersUpTo(MaxHeaders) }

\* One header line on the wire.
HeaderLine(h) == IF h.colon THEN h.key \o T(":") \o h.pad \o h.value ELSE h.key

\* The bytes of a message on the wire.
Serialise(m) ==
    Join(CRLF, <<Join(T(" "), m.start)>> \o [k \in 1..Len(m.hdrs) |-> HeaderLine(m.hdrs[k])])
    \o (IF m.blank THEN CRLF \o CRLF \o m.body ELSE <<>>)

----------------------------------------------------------------------------
(* _parse_http applied to one buffer *)

InitHttp == IdleHttp /\ IdlePkt /\ IdleWs /\ IdleRec /\ IdleCap

\* A reassembled stream arrives.
HttpReceive ==
    /\ rawParts = <<>>
    /\ \E m \in HttpMessages : rawParts' = <<m>> /\ raw' = Serialise(m)
    /\ UNCHANGED <<http, pktVars, wsVars, recVars, capVars>>

\* http = _parse_http(raw)
ParseHttp ==
    /\ rawParts # <<>> /\ http = <<>>
    /\ http' = <<_parse_http(raw)>>
    /\ UNCHANGED <<raw, rawParts, pktVars, wsVars, recVars, capVars>>

NextHttp == HttpReceive \/ ParseHttp

SpecHttp == InitHttp /\ [][NextHttp]_vars

----------------------------------------------------------------------------
(* Claims about _parse_http and _decode_body *)

\* "GET /foo HTTP/1.1\r\nHost: x.com\r\n\r\n"
GetFoo == T("GET /foo HTTP/1.1\r\nHost: x.com\r\n\r\n")

\* The header lines of the message that are `key: value` lines.
KeyValueLines(m) == {k \in 1..Len(m.hdrs) : m.hdrs[k].colon}

\* C9: a buffer whose first line is "<verb> <path> <version>" parses to a request
\* whose method and path are the first two tokens, whose headers are exactly the
\* key: value lines before the blank line under their lower-cased keys (a key that
\* occurs once has that line's value), and whose body is the text after the blank
\* line.  GetFoo gives method GET, path /foo, headers {host: x.com}, body empty.
C9_RequestRoundTrip ==
    /\ (http # <<>> /\ rawParts[1].start \in RequestStarts) =>
          LET m == rawParts[1]
              r == http[1]
              lowered(k) == Lower(m.hdrs[k].key)
          IN  /\ r.type = "request"
              /\ r.method = m.start[1] /\ r.method \in Verbs
              /\ r.path = m.start[2]
              /\ DOMAIN r.headers = {lowered(k) : k \in KeyValueLines(m)}
              /\ \A x \in DOMAIN r.headers :
                    \E k \in KeyValueLines(m) :
                        lowered(k) = x /\ r.headers[x] = m.hdrs[k].value
              /\ m.blank => r.body = Utf8Decode(m.body)
    /\ (http # <<>> /\ raw = GetFoo) =>
          http[1] = [type |-> "request", method |-> T("GET"), path |-> T("/foo"),
                     headers |-> SetItem(EmptyDict, T("host"), T("x.com")), body |-> <<>>]

\* GetFoo has been parsed into the request of the example.
C9_Witness ==
    /\ http # <<>> /\ raw = GetFoo
    /\ rawParts[1].start = <<T("GET"), T("/foo"), T("HTTP/1.1")>>
    /\ http[1].type = "request" /\ http[1].headers[T("host")] = T("x.com")

\* The content-encoding header of a parsed message names gzip or deflate.
NamesCompression(r) ==
    /\ T("content-encoding") \in DOMAIN r.headers
    /\ \/ Contains(r.headers[T("content-encoding")], T("gzip"))
       \/ Contains(r.headers[T("content-encoding")], T("deflate"))

\* The body bytes are a stream of the compression the header names.
IsCompressedAsNamed(data, encoding) ==
    IF Contains(encoding, T("gzip")) THEN Decompress(GzipStreams, data).ok
    ELSE Contains(encoding, T("deflate")) /\ Decompress(ZlibStreams, data).ok

\* C10: when the parsed message carries a content-encoding header naming gzip or
\* deflate and the bytes behind the blank line are such a stream, its body is the
\* decompressed body (_decode_body of those bytes), not the bytes as received.
C10_BodyIsDecompressed ==
    (/\ http # <<>> /\ http[1].type # "None"
     /\ rawParts[1].blank
     /\ NamesCompression(http[1])
     /\ IsCompressedAsNamed(rawParts[1].body, http[1].headers[T("content-encoding")]))
        => http[1].body = _decode_body(rawParts[1].body, http[1].headers[T("content-encoding")])

\* The first line of the message as _parse_http reads it.
FirstLineText(m) == Utf8Decode(Join(T(" "), m.start))

\* C11: _parse_http returns a Request, a Response or None for every buffer; None
\* whenever the first line starts neither with a known verb nor with "HTTP", and
\* None when such a first line has no second space-separated token.
C11_ParseHttpReturnsOrAbsent ==
    http # <<>> =>
        LET first == FirstLineText(rawParts[1])
            known == (\E v \in Verbs : StartsWith(first, v)) \/ StartsWith(first, T("HTTP"))
        IN  /\ http[1].type \in {"request", "response", "None"}
            /\ ~known => http[1] = None
            /\ (known /\ ~Contains(first, T(" "))) => http[1] = None
            /\ (known /\ Contains(first, T(" "))) => http[1] # None

\* A buffer whose first line is the single token GET has been parsed to None,
\* headers and body behind it.
C11_Witness ==
    /\ http = <<None>>
    /\ rawParts[1].start = <<T("GET")>> /\ rawParts[1].hdrs # <<>> /\ rawParts[1].blank

\* The variables hold values of the expected shape.
ReconTypeOK == rpc \in {"idle", "scan", "raised", "returned"} /\ rpos <= Len(packets)

----------------------------------------------------------------------------
(* reconstruct on a capture file, and again on the same file *)

InitRecon ==
    /\ tz \in Offsets /\ SCAPY \in BOOLEAN
    /\ pcap = <<>> /\ packets = <<>> /\ loadErr = <<>> /\ rpos = 0 /\ results = <<>>
    /\ rpc = "idle" /\ rrun = 0 /\ rprev = <<>>
    /\ IdlePkt /\ IdleWs /\ IdleHttp /\ IdleCap

\* The store the call before left, as a module-level dict would keep it.
StaleStore == results

\* Line 284: results = {}
FreshStore == <<>>

\* reconstruct(pcap_path) is called: the first time on a file of the caller's
\* choice, after that on the same file again; the caller keeps what the call
\* before returned.
ReconEnter ==
    /\ rpc \in {"idle", "returned"} /\ rrun < MaxRuns
    /\ IF rrun = 0 THEN pcap' \in ScanFiles ELSE UNCHANGED pcap
    /\ rprev' = IF rpc = "returned" THEN <<results>> ELSE <<>>
    /\ rrun' = rrun + 1
    /\ UNCHANGED <<tz, SCAPY, pktVars, wsVars, httpVars, capVars>>

\* Lines 276-277: without scapy the call returns at once.
ReconNoScapy ==
    /\ ReconEnter /\ ~SCAPY
    /\ results' = NoScapy /\ rpc' = "returned"
    /\ packets' = <<>> /\ loadErr' = <<>> /\ rpos' = 0

\* Lines 279-282: rdpcap raises and the call returns the error entry.
ReconLoadFails ==
    /\ ReconEnter /\ SCAPY /\ ~pcap'.ok
    /\ loadErr' = <<pcap'.cause>>
    /\ results' = LoadFailure(pcap'.cause) /\ rpc' = "returned"
    /\ packets' = <<>> /\ rpos' = 0

\* Lines 279-284: rdpcap returns the packets and the scan starts on an empty store.
ReconLoad ==
    /\ ReconEnter /\ SCAPY /\ pcap'.ok
    /\ packets' = pcap'.pkts /\ loadErr' = <<>>
    /\ results' = FreshStore /\ rpos' = 0 /\ rpc' = "scan"

\* Lines 289-368: one pass of the for loop.  An exception that leaves the body
\* leaves reconstruct.
ScanPacket ==
    /\ rpc = "scan" /\ rpos < Len(packets)
    /\ IF PacketRaises(packets[rpos + 1])
       THEN rpc' = "raised" /\ UNCHANGED <<results, rpos>>
       ELSE /\ results' = HandlePacket(results, packets[rpos + 1], tz)
            /\ rpos' = rpos + 1 /\ rpc' = "scan"
    /\ UNCHANGED <<tz, SCAPY, pcap, packets, loadErr, rrun, rprev,
                   pktVars, wsVars, httpVars, capVars>>

\* Line 370: return results.
ReconReturn ==
    /\ rpc = "scan" /\ rpos = Len(packets)
    /\ rpc' = "returned"
    /\ UNCHANGED <<tz, SCAPY, pcap, packets, loadErr, rpos, results, rrun, rprev,
                   pktVars, wsVars, httpVars, capVars>>

NextRecon == ReconNoScapy \/ ReconLoadFails \/ ReconLoad \/ ScanPacket \/ ReconReturn

SpecRecon == InitRecon /\ [][NextRecon]_vars

----------------------------------------------------------------------------
(* Claims about reconstruct *)

\* The number of records in a store.
RecordCount(store) ==
    LET sum[k \in 0..Len(store)] == IF k = 0 THEN 0 ELSE sum[k - 1] + Len(store[k].msgs)
    IN  sum[Len(store)]

\* The number of records the packets of ps yield when each is scanned alone.
YieldOf(ps, offset) ==
    LET sum[k \in 0..Len(ps)] ==
            IF k = 0 THEN 0 ELSE sum[k - 1] + RecordCount(HandlePacket(<<>>, ps[k], offset))
    IN  sum[Len(ps)]

\* C12: once the packets are loaded the scan reaches the end of the sequence:
\* no exception leaves reconstruct whatever the packets hold, and at the return
\* every packet has been handled, so the store holds the records of each of them.
C12_ScanReachesTheEnd ==
    /\ rpc # "raised"
    /\ (rpc = "returned" /\ SCAPY /\ pcap.ok) =>
          /\ rpos = Len(pcap.pkts) /\ packets = pcap.pkts
          /\ RecordCount(results) = YieldOf(pcap.pkts, tz)

\* A scan has returned the record of an HTTP request that follows a packet some
\* decoder failed on.
C12_Witness ==
    /\ rpc = "returned" /\ Len(packets) = 2
    /\ packets[1] \in MalformedPackets /\ packets[2] = HttpPacket
    /\ Bucket(results, "HTTP Requests") # <<>>
    /\ Bucket(results, "HTTP Requests")[Len(Bucket(results, "HTTP Requests"))].path
          = T("/index.html")

\* C13: when rdpcap raises, reconstruct returns the single entry "error" whose
\* one record carries the cause, and nothing else; a load that succeeds never
\* holds a key "error", during the scan or in what it returns, so the two
\* results differ even when the scan recovers nothing.
C13_LoadFailureIsDistinct ==
    /\ (rpc = "returned" /\ SCAPY /\ ~pcap.ok) =>
          /\ Len(results) = 1 /\ results[1].key = "error"
          /\ results[1].msgs = <<[content |-> pcap.cause]>>
          /\ loadErr = <<pcap.cause>>
    /\ (rpc \in {"scan", "returned"} /\ SCAPY /\ pcap.ok) => "error" \notin StoreKeys(results)

\* A call has returned the error entry for a file rdpcap could not read.
C13_Witness ==
    /\ rpc = "returned" /\ SCAPY /\ ~pcap.ok
    /\ pcap.cause = T("No data could be read!")
    /\ StoreKeys(results) = {"error"}

\* C14: after every packet of the scan and in the store it returns, each key is
\* there once and maps to a non-empty list: a key comes into being with the
\* first record of its platform, and a packet that yields no record for a
\* platform leaves that platform without a key.
C14_NoEmptyBucket ==
    (rpc \in {"scan", "returned"} /\ SCAPY /\ pcap.ok) =>
        /\ \A i \in DOMAIN results : results[i].msgs # <<>>
        /\ \A i, j \in DOMAIN results : results[i].key = results[j].key => i = j
        /\ \A k \in StoreKeys(results) :
              \E i \in 1..rpos : Bucket(HandlePacket(<<>>, packets[i], tz), k) # <<>>

\* A scan has handled a DNS response, which yields no record, and then an HTTP
\* request: the store has the key of the request and no key "DNS Queries".
C14_Witness ==
    /\ rpc = "returned" /\ Len(packets) = 2
    /\ HasLayer(packets[1].dns) /\ packets[1].dns[1].qr = 1
    /\ packets[2] = HttpPacket
    /\ StoreKeys(results) = {"HTTP Requests"}

\* The store new keeps every bucket of old in its place, with the records of
\* old unchanged at the start of it.
StoreExtends(old, new) ==
    /\ Len(old) <= Len(new)
    /\ \A i \in DOMAIN old :
          /\ new[i].key = old[i].key
          /\ Len(old[i].msgs) <= Len(new[i].msgs)
          /\ SubSeq(new[i].msgs, 1, Len(old[i].msgs)) = old[i].msgs

\* C15: a pass of the loop leaves every bucket's records as they are and where
\* they are, and what it adds to a bucket are the records of its packet, at the
\* end: so in every bucket the records of an earlier packet come before those
\* of a later one.
C15_BucketsAppendOnly ==
    [][(rpc = "scan" /\ rpos' = rpos + 1) =>
          /\ StoreExtends(results, results')
          /\ \A k \in StoreKeys(results') :
                Bucket(results', k)
                   = Bucket(results, k) \o Bucket(HandlePacket(<<>>, packets[rpos + 1], tz), k)]_vars

\* A scan has returned a bucket with the records of two packets: the request
\* captured at a time no calendar holds first, the other behind it.
C15_Witness ==
    /\ rpc = "returned" /\ Len(packets) = 2
    /\ packets[1].time = FarTime /\ packets[2] = HttpPacket
    /\ Len(Bucket(results, "HTTP Requests")) = 2
    /\ Bucket(results, "HTTP Requests")[1].timestamp = T("Unknown")
    /\ Bucket(results, "HTTP Requests")[2].timestamp = T("2024-01-01 00:30:00")

C18_DnsPacketRunsDnsBranchOnly ==
    [][(rpc = "scan" /\ rpos' = rpos + 1 /\ HasLayer(packets[rpos + 1].dns)) =>
          /\ StoreExtends(results, results')
          /\ StoreKeys(results') \subseteq StoreKeys(results) \cup {"DNS Queries"}
          /\ \A k \in StoreKeys(results) \ {"DNS Queries"} :
                Bucket(results', k) = Bucket(results, k)
          /\ Len(Bucket(results', "DNS Queries")) - Len(Bucket(results, "DNS Queries"))
                \in {0, 1}]_vars

\* A scan has handled an HTTP request and then a DNS query that travels over
\* TCP to port 80 with an HTTP request as payload: one record in each bucket.
C18_Witness ==
    /\ rpc = "returned" /\ Len(packets) = 2 /\ packets[1] = HttpPacket
    /\ HasLayer(packets[2].dns) /\ packets[2].dns[1].qr = 0
    /\ HasLayer(packets[2].tcp) /\ packets[2].tcp[1].dport = 80
    /\ packets[2].raw = <<HttpGetIndex>>
    /\ Len(Bucket(results, "DNS Queries")) = 1
    /\ Len(Bucket(results, "HTTP Requests")) = 1
    /\ StoreKeys(results) = {"HTTP Requests", "DNS Queries"}

\* The packet has no DNS layer, travels over UDP with a payload, and one of its
\* ports is a SIP port.
IsSipTraffic(p) ==
    /\ ~HasLayer(p.dns) /\ HasLayer(p.udp) /\ RawOf(p) # <<>>
    /\ p.udp[1].sport \in SipPorts \/ p.udp[1].dport \in SipPorts

\* C19: the pass of the loop over a non-DNS UDP packet with payload and a SIP
\* port on either side appends one record to "VoIP / SIP" when _sip_parse
\* accepts the payload and none when it does not, and in both cases creates and
\* changes no other bucket.
C19_SipPacketRunsSipBranchOnly ==
    [][(rpc = "scan" /\ rpos' = rpos + 1 /\ IsSipTraffic(packets[rpos + 1])) =>
          /\ StoreExtends(results, results')
          /\ StoreKeys(results') \subseteq StoreKeys(results) \cup {"VoIP / SIP"}
          /\ \A k \in StoreKeys(results) \ {"VoIP / SIP"} :
                Bucket(results', k) = Bucket(results, k)
          /\ Len(Bucket(results', "VoIP / SIP")) - Len(Bucket(results, "VoIP / SIP"))
                = IF _sip_parse(RawOf(packets[rpos + 1])) # None THEN 1 ELSE 0]_vars

\* A scan has handled an HTTP request over TCP and then the same request sent
\* over UDP from port 5061: the SIP decode misses and the store holds the one
\* record of the first packet.
C19_Witness ==
    /\ rpc = "returned" /\ Len(packets) = 2 /\ packets[1] = HttpPacket
    /\ IsSipTraffic(packets[2]) /\ packets[2].udp[1].sport = 5061
    /\ packets[2].raw = <<HttpGetIndex>>
    /\ StoreKeys(results) = {"HTTP Requests"}
    /\ Len(Bucket(results, "HTTP Requests")) = 1

\* The rule the condition of line 300 is meant to state: UDP, a payload, and a
\* SIP port on either side.
SipCondition_Intended(p) ==
    /\ HasLayer(p.udp) /\ RawOf(p) # <<>>
    /\ p.udp[1].sport \in SipPorts \/ p.udp[1].dport \in SipPorts

\* The store a scan of ps builds under the intended rule.
ScanIntended(ps, offset) ==
    LET out[k \in 0..Len(ps)] ==
            IF k = 0 THEN <<>>
            ELSE HandleWith(out[k - 1], ps[k], _ts(ps[k], offset), SipCondition_Intended(ps[k]))
    IN  out[Len(ps)]

\* C20: the scan under the condition as written builds, packet by packet, the
\* store the intended rule builds; and a packet without DNS layer and without
\* payload yields no record, whatever its transport and ports.
C20_SipConditionAsIntended ==
    (rpc \in {"scan", "returned"} /\ SCAPY /\ pcap.ok) =>
        /\ results = ScanIntended(SubSeq(packets, 1, rpos), tz)
        /\ \A i \in 1..rpos :
              (~HasLayer(packets[i].dns) /\ RawOf(packets[i]) = <<>>)
                 => HandlePacket(<<>>, packets[i], tz) = <<>>

\* A scan has handled a UDP packet from port 5061 without payload, on which
\* the condition as written and the intended rule differ, and then an HTTP
\* request: the store holds the record of the request only.
C20_Witness ==
    /\ rpc = "returned" /\ Len(packets) = 2 /\ packets[2] = HttpPacket
    /\ ~HasLayer(packets[1].dns) /\ HasLayer(packets[1].udp)
    /\ packets[1].udp[1].sport = 5061 /\ RawOf(packets[1]) = <<>>
    /\ SipCondition(packets[1]) /\ ~SipCondition_Intended(packets[1])
    /\ StoreKeys(results) = {"HTTP Requests"}

----------------------------------------------------------------------------
(* engine.py: mac_vendor, guess_os and CaptureEngine._handle *)

\* CaptureEngine.target_ip of the targeted capture.
Target == "10.0.0.5"

\* manuf's table, as far as the captured MAC addresses go: get_manuf returns
\* the vendor of a known prefix and None for the others.
ManufTable == [m \in {"a4:83:e7:00:00:01"} |-> "Apple"]

\* mac_vendor(mac) with the parser loaded.
mac_vendor(mac) == IF mac \in DOMAIN ManufTable THEN ManufTable[mac] ELSE "Unknown"

RECURSIVE Decimal(_)
\* The decimal digits an f-string gives a non-negative int.
Decimal(n) == IF n < 10 THEN <<48 + n>> ELSE Decimal(n \div 10) \o <<48 + (n % 10)>>

\* guess_os(ttl) for a ttl that is not None.
guess_os(ttl) ==
    IF 55 <= ttl /\ ttl <= 65 THEN T("Linux / Android / macOS")
    ELSE IF 120 <= ttl /\ ttl <= 128 THEN T("Windows")
    ELSE IF 250 <= ttl /\ ttl <= 255 THEN T("iOS / Network Device")
    ELSE T("Unknown (TTL=") \o Decimal(ttl) \o T(")")

\* Lines 151-155: the entry setdefault creates for an address not seen yet.
NewDevice(ip) ==
    [ip |-> ip, mac |-> <<>>, vendor |-> "Unknown", os_guess |-> T("Unknown"), ttl |-> <<>>,
     hostnames |-> {}, open_ports |-> {}]

\* The destination ports lines 167-170 and 176-179 add.
DestPorts(p) ==
    (IF HasLayer(p.tcp) THEN {p.tcp[1].dport} ELSE {})
    \cup (IF HasLayer(p.udp) THEN {p.udp[1].dport} ELSE {})

\* Lines 149-170: the device entry of the target after the packet.
HandleDevice(devs, p) ==
    LET src == p.ip[1].src
        active_ip == IF src = Target THEN src ELSE p.ip[1].dst
        mac == IF HasLayer(p.ether) THEN <<p.ether[1].src>> ELSE <<>>
        dev == IF active_ip \in DOMAIN devs THEN devs[active_ip] ELSE NewDevice(active_ip)
        named == mac # <<>> /\ dev.mac = <<>>
        first == dev.ttl = <<>>
    IN  SetItem(devs, active_ip,
          [ip |-> dev.ip,
           mac |-> IF named THEN mac ELSE dev.mac,
           vendor |-> IF named THEN mac_vendor(mac[1]) ELSE dev.vendor,
           ttl |-> IF first THEN <<p.ip[1].ttl>> ELSE dev.ttl,
           os_guess |-> IF first THEN guess_os(p.ip[1].ttl) ELSE dev.os_guess,
           hostnames |-> dev.hostnames
                         \cup (IF HasLayer(p.dns) /\ ~QnameRaises(p)
                               THEN {QnameText(p)} ELSE {}),
           open_ports |-> dev.open_ports \cup DestPorts(p)])

\* Lines 115-117: the entry the defaultdict creates for a category not seen yet.
NewTraffic == [count |-> 0, bytes |-> 0, ports |-> {}, domains |-> {}]

\* Lines 172-179: the traffic table after the packet.
HandleTraffic(tr, p) ==
    LET c == classify_packet(p)
        old == IF c.cat \in DOMAIN tr THEN tr[c.cat] ELSE NewTraffic
    IN  SetItem(tr, c.cat,
          [count |-> old.count + 1,
           bytes |-> old.bytes + p.len,
           domains |-> old.domains \cup c.domains,
           ports |-> old.ports \cup DestPorts(p)])

\* _handle without the test of the two addresses.
HandleIgnores_IpOnly(p) == ~HasLayer(p.ip)

\* Lines 142-146: _handle returns before it stores the packet.
HandleIgnores(p) ==
    \/ ~HasLayer(p.ip)
    \/ p.ip[1].src # Target /\ p.ip[1].dst # Target

RECURSIVE SumCounts(_, _)
\* sum(v["count"] for v in self.traffic.values()), over the categories in keys.
SumCounts(tr, keys) ==
    IF keys = {} THEN 0
    ELSE LET k == CHOOSE x \in keys : TRUE
         IN  tr[k].count + SumCounts(tr, keys \ {k})

----------------------------------------------------------------------------
(* Inputs of the capture *)

\* How many seconds the user asks for, at most.
MaxDuration == 2

\* How many packets the capture stores, at most.
MaxCaptured == 3

\* An HTTPS segment of the target, from a known network card.
WebFrame ==
    [ether |-> <<[src |-> "a4:83:e7:00:00:01"]>>,
     ip |-> <<[src |-> Target, dst |-> "93.184.216.34", ttl |-> 64]>>,
     tcp |-> <<[sport |-> 51000, dport |-> 443]>>, udp |-> <<>>, dns |-> <<>>, len |-> 60]

\* A DNS answer to the target, with no link layer and an unusual ttl.
DnsFrame ==
    [ether |-> <<>>,
     ip |-> <<[src |-> "10.0.0.1", dst |-> Target, ttl |-> 37]>>,
     tcp |-> <<>>, udp |-> <<[sport |-> 53, dport |-> 40000]>>,
     dns |-> <<[qr |-> 1, qd |-> <<T("www.youtube.com.")>>]>>, len |-> 90]

\* Traffic between two other hosts.
ForeignFrame ==
    [ether |-> <<[src |-> "00:11:22:33:44:55"]>>,
     ip |-> <<[src |-> "10.0.0.7", dst |-> "10.0.0.1", ttl |-> 128]>>,
     tcp |-> <<[sport |-> 22, dport |-> 50000]>>, udp |-> <<>>, dns |-> <<>>, len |-> 54]

\* An ARP frame: no IP layer.
ArpFrame ==
    [ether |-> <<[src |-> "00:11:22:33:44:55"]>>, ip |-> <<>>, tcp |-> <<>>, udp |-> <<>>,
     dns |-> <<>>, len |-> 42]

WireFrames == {WebFrame, DnsFrame, ForeignFrame, ArpFrame}

\* The filter_categories argument of save_pcap: the categories the user picked,
\* or none.
Selections == {{}, {"Web (HTTPS)"}, {"Web (HTTPS)", "DNS"}}

\* save_pcap before its call.
NotSaving == [filter |-> {}, i |-> 0, filtered |-> <<>>, file |-> <<>>, n |-> 0]

----------------------------------------------------------------------------
(* engine.py: CaptureEngine.sniff, its capture thread, and save_pcap *)

InitCapture ==
    /\ IdlePkt /\ IdleWs /\ IdleHttp /\ IdleRec
    /\ duration \in 0..MaxDuration
    /\ capStats = [elapsed |-> 0, packets |-> 0] /\ progress = NoPass
    /\ stopEv = FALSE /\ capT = "none" /\ sniffPc = "idle" /\ elapsed = 0
    /\ all_packets = <<>> /\ traffic = EmptyDict /\ devices = EmptyDict
    /\ savePc = "idle" /\ saved = NotSaving

\* Lines 183-192: sniff clears the stop flag and starts the capture thread.
SniffStart ==
    /\ sniffPc = "idle"
    /\ stopEv' = FALSE /\ capT' = "sniffing" /\ sniffPc' = "loop" /\ elapsed' = 0
    /\ UNCHANGED <<duration, capStats, all_packets, traffic, devices, savePc, saved>>
    /\ UNCHANGED <<progress, pktVars, wsVars, httpVars, recVars>>

\* Lines 199-200: the iterator sum() draws from, made over traffic.values()
\* for the field `kind`: a dict iterator remembers the size of the dict at its
\* creation.
StartPass(kind, counted) ==
    [pass |-> kind, size |-> Cardinality(DOMAIN traffic), left |-> DOMAIN traffic,
     total |-> 0, packets |-> counted]

\* Lines 193-197: one pass of the progress loop begins: a second of sleep,
\* then the first of the two sums of line 199-200 starts.
SniffTick ==
    /\ sniffPc = "loop" /\ elapsed < duration /\ ~stopEv
    /\ elapsed' = elapsed + 1
    /\ sniffPc' = "progress"
    /\ progress' = StartPass("count", 0)
    /\ UNCHANGED <<duration, capStats, stopEv, capT, all_packets, traffic, devices, savePc,
                   saved>>
    /\ UNCHANGED <<pktVars, wsVars, httpVars, recVars>>

\* Lines 199-200: sum() asks the iterator for the next value.  The iterator
\* first compares the size of the dict with the size it remembers and raises
\* RuntimeError when they differ; the exception leaves sniff, which no longer
\* sets the stop flag nor joins.  Otherwise it gives the next value, or ends:
\* the second sum starts after the first, and after the second the callback of
\* capture.py line 181 stores the elapsed seconds and the packet count.
SumNext ==
    /\ sniffPc = "progress"
    /\ IF Cardinality(DOMAIN traffic) # progress.size
       THEN /\ sniffPc' = "raised"
            /\ UNCHANGED <<progress, capStats>>
       ELSE IF progress.left # {}
       THEN /\ LET k == CHOOSE x \in progress.left : TRUE
               IN  progress' = [progress EXCEPT
                                  !.left = @ \ {k},
                                  !.total = @ + (IF progress.pass = "count"
                                                 THEN traffic[k].count
                                                 ELSE traffic[k].bytes)]
            /\ UNCHANGED <<sniffPc, capStats>>
       ELSE IF progress.pass = "count"
       THEN /\ progress' = StartPass("bytes", progress.total)
            /\ UNCHANGED <<sniffPc, capStats>>
       ELSE /\ capStats' = [elapsed |-> elapsed, packets |-> progress.packets]
            /\ progress' = NoPass
            /\ sniffPc' = "loop"
    /\ UNCHANGED <<duration, stopEv, capT, elapsed, all_packets, traffic, devices, savePc,
                   saved>>
    /\ UNCHANGED <<pktVars, wsVars, httpVars, recVars>>

\* Lines 193-195 and 201: the loop is over; sniff sets the stop flag.
SniffLoopExit ==
    /\ sniffPc = "loop" /\ (elapsed >= duration \/ stopEv)
    /\ stopEv' = TRUE /\ sniffPc' = "join"
    /\ UNCHANGED <<duration, capStats, capT, elapsed, all_packets, traffic, devices, savePc,
                   saved>>
    /\ UNCHANGED <<progress, pktVars, wsVars, httpVars, recVars>>

\* Line 202: t.join(timeout=3) gives up after three seconds, whatever the
\* capture thread is doing; nothing in sniff looks at t.is_alive().
JoinTimesOut == capT = "sniffing"

\* Line 202: the join returns, because the capture thread has ended or because
\* the three seconds are over, and sniff returns.
SniffJoin ==
    /\ sniffPc = "join"
    /\ capT = "exited" \/ JoinTimesOut
    /\ sniffPc' = "returned"
    /\ UNCHANGED <<duration, capStats, stopEv, capT, elapsed, all_packets, traffic, devices,
                   savePc, saved>>
    /\ UNCHANGED <<progress, pktVars, wsVars, httpVars, recVars>>

\* Lines 185-190 and 141-179: the capture thread receives a frame; scapy calls
\* prn (_handle) on it and evaluates stop_filter afterwards, which ends the
\* thread when the stop flag is set.
CapHandle ==
    /\ capT = "sniffing"
    /\ \E p \in WireFrames :
         IF HandleIgnores(p)
         THEN UNCHANGED <<all_packets, devices, traffic>>
         ELSE /\ Len(all_packets) < MaxCaptured
              /\ all_packets' = Append(all_packets, p)
              /\ devices' = HandleDevice(devices, p)
              /\ traffic' = HandleTraffic(traffic, p)
    /\ capT' = IF stopEv THEN "exited" ELSE "sniffing"
    /\ UNCHANGED <<duration, capStats, stopEv, sniffPc, elapsed, savePc, saved>>
    /\ UNCHANGED <<progress, pktVars, wsVars, httpVars, recVars>>

\* Line 189: the capture thread's own timeout: duration seconds after it
\* started listening, scapy's sniff returns and the thread ends; the seconds
\* go by as well when the progress loop has been left by an exception.
CapTimeout ==
    /\ capT = "sniffing" /\ (elapsed >= duration \/ sniffPc = "raised")
    /\ capT' = "exited"
    /\ UNCHANGED <<duration, capStats, stopEv, sniffPc, elapsed, all_packets, traffic, devices,
                   savePc, saved>>
    /\ UNCHANGED <<progress, pktVars, wsVars, httpVars, recVars>>

\* capture.py lines 195-203 and engine.py lines 209-213: the flow has seen
\* sniff return and calls save_pcap, which takes self.all_packets itself (no
\* copy) and starts the filtered list.
SaveBegin ==
    /\ sniffPc = "returned" /\ savePc = "idle"
    /\ \E sel \in Selections :
         saved' = [filter |-> sel, i |-> 0, filtered |-> <<>>, file |-> <<>>, n |-> 0]
    /\ savePc' = "saving"
    /\ UNCHANGED <<duration, capStats, stopEv, capT, sniffPc, elapsed, all_packets, traffic,
                   devices>>
    /\ UNCHANGED <<progress, pktVars, wsVars, httpVars, recVars>>

\* Lines 214-217: one pass of the loop over the list; the list iterator reads
\* the length of the list at every pass.
SaveNext ==
    /\ savePc = "saving" /\ saved.filter # {} /\ saved.i < Len(all_packets)
    /\ LET p == all_packets[saved.i + 1]
       IN  saved' = [saved EXCEPT !.i = @ + 1,
                                  !.filtered = IF classify_packet(p).cat \in saved.filter
                                               THEN Append(@, p) ELSE @]
    /\ UNCHANGED <<duration, capStats, stopEv, capT, sniffPc, elapsed, all_packets, traffic,
                   devices, savePc>>
    /\ UNCHANGED <<progress, pktVars, wsVars, httpVars, recVars>>

\* Lines 218-221: the packets to write, the file if there are any, and the count.
SaveWrite ==
    /\ savePc = "saving" /\ (saved.filter = {} \/ saved.i >= Len(all_packets))
    /\ LET pkts == IF saved.filter = {} THEN all_packets ELSE saved.filtered
       IN  saved' = [saved EXCEPT !.file = IF pkts # <<>> THEN <<pkts>> ELSE <<>>,
                                  !.n = Len(pkts)]
    /\ savePc' = "saved"
    /\ UNCHANGED <<duration, capStats, stopEv, capT, sniffPc, elapsed, all_packets, traffic,
                   devices>>
    /\ UNCHANGED <<progress, pktVars, wsVars, httpVars, recVars>>

NextCapture ==
    \/ SniffStart \/ SniffTick \/ SumNext \/ SniffLoopExit \/ SniffJoin
    \/ CapHandle \/ CapTimeout
    \/ SaveBegin \/ SaveNext \/ SaveWrite

SpecCapture == InitCapture /\ [][NextCapture]_vars

----------------------------------------------------------------------------
(* Claims about the capture *)

\* C17: once CaptureEngine.sniff has returned, the capture thread performs no
\* further _handle call that stores a packet: all_packets, which save_pcap
\* reads, is not appended to any more.
C17_NoAppendAfterSniffReturns ==
    [][sniffPc = "returned" => all_packets' = all_packets]_vars

----------------------------------------------------------------------------
(* Inputs of the loop body of reconstruct: one packet at a time *)

\* n times the character c.
Repeat(c, n) == AsSeq([i \in 1..n |-> c], n)

\* Requests for "/", for a path of 131 characters, with an empty path, and a
\* request line that has no path at all.
HttpRoot == T("GET / HTTP/1.1\r\nHost: example.com\r\n\r\n")
HttpLongPath == T("GET /") \o Repeat(Ord("p"), 130) \o T(" HTTP/1.1\r\nHost: e\r\nUser-Agent: long\r\n\r\n")
HttpEmptyPath == T("GET  HTTP/1.1\r\nHost: example.com\r\n\r\n")
HttpNoPath == T("GET\r\nHost: example.com\r\n\r\n")

\* Responses, one of them with a Host header of a platform.
HttpReply == T("HTTP/1.1 200 OK\r\nContent-Type: text/html\r\n\r\nok")
HttpReplyFb == T("HTTP/1.1 200 OK\r\nHost: www.facebook.com\r\n\r\nbody=zz")

\* A request whose Host names the three platforms.  Its 93 bytes read as a
\* WebSocket stream are a frame of opcode 0 and length 79 ("PO") and then, from
\* byte 81 on, a binary frame ("bo") with what is left of the body.
TriSend ==
    J("POST /messaging/send HTTP/1.1\r\nHost: textplus.facebook.whatsapp.com\r\n\r\nbody=hi&{'body': 'yo'}")

\* A request with XMPP stanzas as its body.
HttpWithStanza == T("POST /x HTTP/1.1\r\nHost: example.com\r\n\r\n<body>in http</body>")

\* WhatsApp Web frames with no HTTP request before them.
BareWhatsApp ==
    PlainFrame(1, J("['t1',{'body':'hello','key':{'remoteJid':'j1'}}]"))
    \o PlainFrame(1, T("hello there"))

\* WhatsApp Web frames that are JSON of every shape: a message without key, an
\* array without body, an object, a number, a string, a short array.
WhatsAppShapes ==
    WhatsAppUpgrade
    \o PlainFrame(1, J("['t2',{'body':'yo'}]")) \o PlainFrame(1, J("['t4',{'x':1}]"))
    \o PlainFrame(1, J("{'body':'solo'}")) \o PlainFrame(1, T("17"))
    \o PlainFrame(1, J("'quoted'")) \o PlainFrame(1, T("[1]"))

\* A message array whose "key" is a string, alone behind the request.
WhatsAppKeyIsText == WhatsAppUpgrade \o PlainFrame(1, J("['t3',{'body':'b','key':'k'}]"))

\* A text frame of 320 characters, its length in the 16-bit form.
WsLong == <<129, 126, 1, 64>> \o Repeat(Ord("z"), 320)

\* A ping between two text frames.
WsPingBetween == PlainFrame(1, T("one")) \o PlainFrame(9, T("ping")) \o PlainFrame(1, T("two"))

\* Stanzas without a body, without addresses, and with an attribute that only
\* ends in "from".
XmppPresence == T("<presence from='a@x' to='b@x'/>")
XmppBare == T("<body>only</body>")
XmppOdd == T("<message xfrom='q' to='first' to='second'><body lang='en'>x</body></message>")

\* SIP: a reply, a request with header names in every case, with blanks, with
\* a header twice and with headers behind the blank line; HTTP's OPTIONS.
SipReply == T("SIP/2.0 200 OK\r\nSubject: s\r\n")
SipRegister ==
    T("REGISTER sip:x SIP/2.0\r\nFROM : a\r\ncall-id:  c9 \r\nto:b\r\nTo: c\r\n\r\nSubject: late")
HttpOptions == T("OPTIONS * HTTP/1.1\r\nHost: h\r\n\r\n")
SipLowerCase == T("invite sip:x SIP/2.0\r\nFrom: a\r\n\r\n")

RoutePayloads ==
    {HttpGetIndex, HttpNoHeaders, HttpRoot, HttpLongPath, HttpEmptyPath, HttpNoPath,
     HttpReply, HttpReplyFb, FbSend, FbGraph, TextPlusSend, TriSend, HttpWithStanza,
     WhatsAppChat, BareWhatsApp, WhatsAppShapes, WhatsAppKeyIsText, WsSix, WsLong,
     WsPingBetween, XmppChat, XmppPresence, XmppBare, XmppOdd, SipInvite, SipReply,
     SipRegister, HttpOptions, SipLowerCase, Undecodable}

\* The transports of ScanL4, and TCP to the second XMPP port and the third web port.
RouteL4 ==
    ScanL4 \cup {[tcp |-> <<[sport |-> 51000, dport |-> d]>>, udp |-> <<>>] : d \in {5223, 8080}}

\* Every transport, with and without a DNS layer, with every payload and none.
RoutePackets ==
    { [ip |-> <<[src |-> "10.0.0.5", dst |-> "10.0.0.1"]>>, tcp |-> l.tcp, udp |-> l.udp,
       dns |-> d, raw |-> r, time |-> NewYear] :
        l \in RouteL4, d \in {<<>>, <<[qr |-> 0, qd |-> <<T("example.com.")>>]>>},
        r \in {<<>>} \cup {<<b>> : b \in RoutePayloads} }

----------------------------------------------------------------------------
(* reconstruct on a capture of one packet *)

\* Lines 279-284 are done: rdpcap has returned one packet and the store is empty.
InitRoute ==
    /\ tz = 0 /\ SCAPY = TRUE
    /\ \E p \in RoutePackets :
          /\ pcap = [ok |-> TRUE, pkts |-> <<p>>, cause |-> <<>>]
          /\ packets = <<p>>
    /\ loadErr = <<>> /\ rpos = 0 /\ results = FreshStore
    /\ rpc = "scan" /\ rrun = 1 /\ rprev = <<>>
    /\ IdlePkt /\ IdleWs /\ IdleHttp /\ IdleCap

NextRoute == ScanPacket \/ ReconReturn

SpecRoute == InitRoute /\ [][NextRoute]_vars

----------------------------------------------------------------------------
(* Claims about the loop body of reconstruct *)

\* The packet of the capture, and what the loop has made of it.
ThePacket == packets[1]
Handled == rpc \in {"scan", "returned"} /\ rpos = 1

\* The packet passes the early exits of lines 294-306: it has no DNS layer, the
\* SIP condition is false for it and it has a payload.
ReachesDecoders(p) == ~HasLayer(p.dns) /\ ~SipCondition(p) /\ RawOf(p) # <<>>

\* The Host header of a decoded message, "" when there is none.
HostOf(h) == IF h = None THEN <<>> ELSE DictGet(h.headers, T("host"), <<>>)

PlatformWords == {T("facebook"), T("messenger"), T("whatsapp"), T("textplus")}

\* The payload decodes as an HTTP request for a path other than "" and "/",
\* to a host that names no platform.
IsPlainRequest(p) ==
    LET h == _parse_http(RawOf(p))
    IN  /\ h # None /\ h.type = "request"
        /\ \A w \in PlatformWords : ~Contains(HostOf(h), w)
        /\ h.path # <<>> /\ h.path # T("/")

\* The record of the request: method, host, the first 120 characters of the
\* path, and the user-agent header.
PlainRequestRecord(p, ts) ==
    LET h == _parse_http(RawOf(p))
    IN  [platform |-> "HTTP", timestamp |-> ts, method |-> h.method, host |-> HostOf(h),
         path |-> IF Len(h.path) > 120 THEN SubSeq(h.path, 1, 120) ELSE h.path,
         user_agent |-> DictGet(h.headers, T("user-agent"), <<>>)]

\* C21, as amended: a packet that passes the early exits appends a record to
\* "HTTP Requests" exactly when its payload decodes as an HTTP request, the
\* Host names no platform and the path is neither empty nor "/", and then it
\* is the one record of the request; a packet that takes an early exit
\* appends none.
C21_PlainRequestIsLogged ==
    Handled =>
        Bucket(results, "HTTP Requests") =
            IF ReachesDecoders(ThePacket) /\ IsPlainRequest(ThePacket)
            THEN <<PlainRequestRecord(ThePacket, _ts(ThePacket, tz))>>
            ELSE <<>>

\* C21, as stated: whatever the packet, it appends the record exactly when its
\* payload is such a request.
C21_AnyPacketWithARequestIsLogged ==
    Handled =>
        Bucket(results, "HTTP Requests") =
            IF IsPlainRequest(ThePacket)
            THEN <<PlainRequestRecord(ThePacket, _ts(ThePacket, tz))>>
            ELSE <<>>

\* The request for the long path has been logged with its first 120 characters.
C21_Witness ==
    /\ Handled /\ RawOf(ThePacket) = HttpLongPath /\ ReachesDecoders(ThePacket)
    /\ Len(Bucket(results, "HTTP Requests")) = 1
    /\ Bucket(results, "HTTP Requests")[1].path = T("/") \o Repeat(Ord("p"), 119)
    /\ Bucket(results, "HTTP Requests")[1].user_agent = T("long")

\* The packet is TCP to port 80, 443 or 8080.
ToWebPort(p) == HasLayer(p.tcp) /\ p.tcp[1].dport \in {80, 443, 8080}

\* The first n characters of a text.
FirstChars(text, n) == IF Len(text) > n THEN SubSeq(text, 1, n) ELSE text

\* The records of the first five frames of the payload, in frame order.
FirstFrameRecords(p, ts) ==
    LET frs == _extract_ws_frames(RawOf(p))
        n   == IF Len(frs) < 5 THEN Len(frs) ELSE 5
    IN  AsSeq([k \in 1..n |->
                 [platform |-> "WebSocket", timestamp |-> ts,
                  host |-> HostOf(_parse_http(RawOf(p))),
                  content |-> FirstChars(frs[k], 300)]], n)

\* C22: a packet has records in "WebSocket Frames" only if it is TCP to port
\* 80, 443 or 8080 and has a payload; a packet of that kind that passes the
\* early exits appends the records of the first min(5, n) of its n frames, in
\* frame order, each content at most 300 characters long, whether the HTTP
\* decode of the payload succeeded or not.
C22_WebSocketFramesFromWebPorts ==
    Handled =>
        /\ Bucket(results, "WebSocket Frames") # <<>>
              => ToWebPort(ThePacket) /\ RawOf(ThePacket) # <<>>
        /\ (ToWebPort(ThePacket) /\ ReachesDecoders(ThePacket))
              => /\ Bucket(results, "WebSocket Frames")
                      = FirstFrameRecords(ThePacket, _ts(ThePacket, tz))
                 /\ \A k \in DOMAIN Bucket(results, "WebSocket Frames") :
                       Len(Bucket(results, "WebSocket Frames")[k].content) <= 300
        /\ ~ToWebPort(ThePacket) => Bucket(results, "WebSocket Frames") = <<>>

\* A payload of six frames that is no HTTP message has left the records of
\* its first five frames.
C22_Witness ==
    /\ Handled /\ RawOf(ThePacket) = WsSix
    /\ ToWebPort(ThePacket) /\ ThePacket.tcp[1].dport = 8080 /\ ReachesDecoders(ThePacket)
    /\ _parse_http(WsSix) = None
    /\ Len(_extract_ws_frames(WsSix)) = 6
    /\ Len(Bucket(results, "WebSocket Frames")) = 5
    /\ Bucket(results, "WebSocket Frames")[5].content = T("e")

\* What one part of the dispatch, taken alone, makes of the packet: the
\* sub-decoder of a platform when the Host names it, and the two generic parts.
PartAlone(key, p, ts) ==
    LET h    == _parse_http(RawOf(p))
        host == HostOf(h)
    IN  CASE key = "Facebook Messenger" ->
               IF Contains(host, T("facebook")) \/ Contains(host, T("messenger"))
               THEN parse_facebook(h, ts) ELSE <<>>
          [] key = "WhatsApp" ->
               IF Contains(host, T("whatsapp")) THEN parse_whatsapp(h, RawOf(p), ts) ELSE <<>>
          [] key = "TextPlus" ->
               IF Contains(host, T("textplus")) THEN parse_textplus(h, ts) ELSE <<>>
          [] key = "XMPP/Jabber (Messaging)" -> XmppRecords(p, ts)
          [] key = "WebSocket Frames" -> WebSocketRecords(p, host, ts)

IndependentParts ==
    {"Facebook Messenger", "WhatsApp", "TextPlus", "XMPP/Jabber (Messaging)", "WebSocket Frames"}

\* C24: for a packet that passes the early exits, each of the three platform
\* buckets holds what that platform's sub-decoder returns whenever the Host
\* header has its substring, whatever the other two did, and the XMPP and
\* WebSocket buckets hold what those parts make of the transport, the port and
\* the payload, whatever the HTTP decode and the sub-decoders produced.
C24_BranchesAreIndependent ==
    (Handled /\ ReachesDecoders(ThePacket)) =>
        \A key \in IndependentParts :
            Bucket(results, key) = PartAlone(key, ThePacket, _ts(ThePacket, tz))

\* One request has fed the three platform buckets and the WebSocket bucket.
C24_Witness ==
    /\ Handled /\ RawOf(ThePacket) = TriSend /\ ReachesDecoders(ThePacket)
    /\ StoreKeys(results) = {"Facebook Messenger", "WhatsApp", "TextPlus", "WebSocket Frames"}
    /\ Bucket(results, "Facebook Messenger")[1].content = T("hi")
    /\ Bucket(results, "TextPlus")[1].content = T("yo")
    /\ Bucket(results, "WhatsApp")[1].platform = "WhatsApp (raw frame)"

\* The packet is TCP to port 5222 or 5223.
ToXmppPort(p) == HasLayer(p.tcp) /\ p.tcp[1].dport \in {5222, 5223}

\* The first element of a list of matches, "" when there is none.
FirstOr(matches) == IF matches = <<>> THEN <<>> ELSE matches[1]

\* One record per body span of the payload, in order of occurrence, each with
\* the first from= and the first to= value of the payload.
BodySpanRecords(p, ts) ==
    LET text  == Utf8Decode(RawOf(p))
        spans == ReBodies(text)
    IN  AsSeq([k \in 1..Len(spans) |->
                 [platform |-> "XMPP", timestamp |-> ts,
                  from |-> FirstOr(ReAttr(text, T("from"), FALSE)),
                  to |-> FirstOr(ReAttr(text, T("to"), TRUE)),
                  content |-> spans[k]]], Len(spans))

\* C25: a TCP packet without a DNS layer, to port 5222 or 5223 and with a
\* payload, appends to "XMPP/Jabber (Messaging)" one record per body span of
\* the payload, in order of occurrence, each with the first from and the first
\* to value of the payload, "" when there is none; with no body span it
\* appends nothing.
C25_OneRecordPerBody ==
    (/\ Handled /\ ~HasLayer(ThePacket.dns) /\ ToXmppPort(ThePacket)
     /\ RawOf(ThePacket) # <<>>)
        => Bucket(results, "XMPP/Jabber (Messaging)")
              = BodySpanRecords(ThePacket, _ts(ThePacket, tz))

\* A stanza with two bodies has left two records, in order, with its addresses.
C25_Witness ==
    /\ Handled /\ RawOf(ThePacket) = XmppChat /\ ~HasLayer(ThePacket.dns)
    /\ ToXmppPort(ThePacket) /\ ThePacket.tcp[1].dport = 5223
    /\ Len(Bucket(results, "XMPP/Jabber (Messaging)")) = 2
    /\ Bucket(results, "XMPP/Jabber (Messaging)")[1].content = T("hi")
    /\ Bucket(results, "XMPP/Jabber (Messaging)")[2].content = T("again")
    /\ Bucket(results, "XMPP/Jabber (Messaging)")[2].from = T("a@x")
    /\ Bucket(results, "XMPP/Jabber (Messaging)")[2].to = T("b@x")

\* The text of a buffer before its first CRLF.
FirstLine(buf) == Partition(Utf8Decode(buf), CRLF).before

\* The first line of the buffer names a SIP reply or one of the six requests.
StartsAsSip(buf) ==
    \E word \in {"SIP/", "INVITE", "ACK", "BYE", "REGISTER", "OPTIONS", "NOTIFY"} :
        StartsWith(FirstLine(buf), T(word))

\* The value of the header `name` of a buffer: of the lines after the first that
\* hold a colon and whose text before it, stripped and in lower case, is `name`,
\* the stripped text after the colon of the last one; "" when there is none.
SipHeaderValue(buf, name) ==
    LET lines == Split(Utf8Decode(buf), CRLF)
        named == {k \in 2..Len(lines) :
                    /\ Contains(lines[k], T(":"))
                    /\ Lower(Strip(Partition(lines[k], T(":")).before)) = T(name)}
        last  == CHOOSE k \in named : \A j \in named : j <= k
    IN  IF named = {} THEN <<>> ELSE Strip(Partition(lines[last], T(":")).after)

\* C26: _sip_parse returns a message exactly when the first line of the buffer
\* starts with SIP/ or INVITE, ACK, BYE, REGISTER, OPTIONS or NOTIFY, and
\* nothing otherwise, the empty buffer included; From, To, Call-ID and Subject
\* of the message are the values of the headers of those names, matched in any
\* case, and "" for a header that is absent.  Seen through the SIP branch,
\* which appends one record per message.
C26_SipMessage ==
    (Handled /\ ~HasLayer(ThePacket.dns) /\ SipCondition(ThePacket))
        => /\ (_sip_parse(RawOf(ThePacket)) # None) <=> StartsAsSip(RawOf(ThePacket))
           /\ Bucket(results, "VoIP / SIP")
                = IF StartsAsSip(RawOf(ThePacket))
                  THEN <<[platform  |-> "VoIP/SIP",
                          timestamp |-> _ts(ThePacket, tz),
                          event     |-> FirstLine(RawOf(ThePacket)),
                          from      |-> SipHeaderValue(RawOf(ThePacket), "from"),
                          to        |-> SipHeaderValue(RawOf(ThePacket), "to"),
                          call_id   |-> SipHeaderValue(RawOf(ThePacket), "call-id"),
                          subject   |-> SipHeaderValue(RawOf(ThePacket), "subject")]>>
                  ELSE <<>>

\* A REGISTER with headers in mixed case has left its record.
C26_Witness ==
    /\ Handled /\ ~HasLayer(ThePacket.dns) /\ SipCondition(ThePacket)
    /\ RawOf(ThePacket) = SipRegister
    /\ Len(Bucket(results, "VoIP / SIP")) = 1
    /\ Bucket(results, "VoIP / SIP")[1].from = T("a")
    /\ Bucket(results, "VoIP / SIP")[1].call_id = T("c9")
    /\ Bucket(results, "VoIP / SIP")[1].to = T("c")

\* The frames of the packet's payload that json.loads rejects and that are
\* longer than 2 characters and do not start with "<".
UnparsedFrames(p) ==
    LET frs == _extract_ws_frames(RawOf(p))
    IN  {frs[k] : k \in {j \in DOMAIN frs : /\ ~JsonLoads(frs[j]).ok
                                            /\ Len(frs[j]) > 2
                                            /\ ~StartsWith(frs[j], T("<"))}}

\* C27: in the WhatsApp branch a frame yields a raw-frame record only if
\* parsing it as JSON fails (and it is longer than 2 characters and does not
\* start with "<"): every raw-frame record of the bucket holds the first 500
\* characters of a frame that json.loads rejects.
C27_FallbackOnlyWhenJsonFails ==
    Handled =>
        \A k \in DOMAIN Bucket(results, "WhatsApp") :
            Bucket(results, "WhatsApp")[k].platform = "WhatsApp (raw frame)"
                => \E f \in UnparsedFrames(ThePacket) :
                      Bucket(results, "WhatsApp")[k].content = Slice(f, 0, 500)

\* The payload begins with a request method or with "HTTP".
StartsAsHttp(buf) ==
    \E word \in {"GET", "POST", "PUT", "DELETE", "PATCH", "HEAD", "OPTIONS", "HTTP"} :
        StartsWith(FirstLine(buf), T(word))

\* The values of the Host lines of the payload's header section: the lines
\* after the first and before the first empty line.
HostValues(buf) ==
    LET lines == Split(Utf8Decode(buf), CRLF)
        blank == {k \in 2..Len(lines) : lines[k] = <<>>}
        heads == {k \in 2..Len(lines) : \A b \in blank : k < b}
    IN  {Strip(Partition(lines[k], T(":")).after) :
            k \in {h \in heads : /\ Contains(lines[h], T(":"))
                                 /\ Lower(Strip(Partition(lines[h], T(":")).before))
                                      = T("host")}}

\* The payload is an HTTP message with a Host that holds one of the words.
HttpWithHost(p, words) ==
    /\ ReachesDecoders(p) /\ StartsAsHttp(RawOf(p)) /\ _parse_http(RawOf(p)) # None
    /\ \E v \in HostValues(RawOf(p)) : \E w \in words : Contains(v, T(w))

\* The payload is a stream of WebSocket frames with nothing before it.
BareFrameStream(p) == RawOf(p) # <<>> /\ RawOf(p)[1] \in {129, 130, 137}

\* C28: a record of "Facebook Messenger", "WhatsApp" or "TextPlus" comes from
\* a packet whose payload decoded as an HTTP message with a Host header holding
\* the platform's word; so the WhatsApp decoder leaves records only for a
\* payload that begins with a request method or "HTTP", never for a bare
\* stream of WebSocket frames.
C28_PlatformRecordsNeedHttpHost ==
    Handled =>
        /\ Bucket(results, "Facebook Messenger") # <<>>
              => HttpWithHost(ThePacket, {"facebook", "messenger"})
        /\ Bucket(results, "WhatsApp") # <<>> => HttpWithHost(ThePacket, {"whatsapp"})
        /\ Bucket(results, "TextPlus") # <<>> => HttpWithHost(ThePacket, {"textplus"})
        /\ BareFrameStream(ThePacket) => Bucket(results, "WhatsApp") = <<>>

\* An upgrade request to a WhatsApp host followed by frames has left WhatsApp
\* records; its payload begins with GET and names the host.
C28_Witness ==
    /\ Handled /\ RawOf(ThePacket) = WhatsAppChat
    /\ Bucket(results, "WhatsApp") # <<>>
    /\ HttpWithHost(ThePacket, {"whatsapp"})
    /\ HostValues(RawOf(ThePacket)) = {T("web.whatsapp.com")}
    /\ ~BareFrameStream(ThePacket)

----------------------------------------------------------------------------
(* Claims about the tables of the capture *)

RECURSIVE SumBytes(_, _)
\* The byte totals of the categories in keys, added up.
SumBytes(tr, keys) ==
    IF keys = {} THEN 0
    ELSE LET k == CHOOSE x \in keys : TRUE
         IN  tr[k].bytes + SumBytes(tr, keys \ {k})

RECURSIVE TotalLen(_)
\* The lengths of the packets of a list, added up.
TotalLen(pkts) == IF pkts = <<>> THEN 0 ELSE pkts[1].len + TotalLen(Tail(pkts))

\* The per-category counts and byte totals add up to the stored packets.
TablesMatchPackets ==
    /\ SumCounts(traffic, DOMAIN traffic) = Len(all_packets)
    /\ SumBytes(traffic, DOMAIN traffic) = TotalLen(all_packets)

\* The packet has an IP layer and the target as its source or its destination.
OfTarget(p) == HasLayer(p.ip) /\ (p.ip[1].src = Target \/ p.ip[1].dst = Target)

\* all_packets, devices and traffic change only when a packet of the target
\* is appended.
OnlyTargetPacketsChange ==
    (all_packets' # all_packets \/ devices' # devices \/ traffic' # traffic)
        => /\ Len(all_packets') = Len(all_packets) + 1
           /\ SubSeq(all_packets', 1, Len(all_packets)) = all_packets
           /\ OfTarget(all_packets'[Len(all_packets')])

\* C29: after any sequence of packets given to _handle, the per-category
\* counts add up to the length of all_packets and the per-category byte totals
\* to the total length of the stored packets; a packet without an IP layer, or
\* with neither address equal to the target, leaves all_packets, devices and
\* traffic as they were.
C29_TablesMatchStoredPackets ==
    []TablesMatchPackets /\ [][OnlyTargetPacketsChange]_vars

\* Three packets of two categories are stored, 210 bytes in all.
C29_Witness ==
    /\ Len(all_packets) = 3 /\ Cardinality(DOMAIN traffic) = 2
    /\ SumCounts(traffic, DOMAIN traffic) = 3
    /\ SumBytes(traffic, DOMAIN traffic) = 210
    /\ \A k \in DOMAIN all_packets : OfTarget(all_packets[k])

\* C30: while a capture runs, the progress loop of sniff never iterates the
\* traffic table in an interval in which _handle inserts a new category: as
\* long as an iteration is under way, the key set of the table stays as it is.
C30_NoInsertDuringIteration ==
    [][sniffPc = "progress" => DOMAIN traffic' = DOMAIN traffic]_vars

====
